---- MODULE Spec2Model ----
(***************************************************************************)
(* A model of the streaming dubbing pipeline of waveshift-tts-engine:      *)
(* MainOrchestrator.run_complete_tts_pipeline (orchestrator.py), its three *)
(* queue workers, the DataFetcher's results, the TimestampAdjuster and the *)
(* HLSManager with its upload worker (core/hls_manager.py).                *)
(*                                                                         *)
(* One task is run.  Every step between two awaits of a coroutine is one   *)
(* action.  The services are the ones MainOrchestrator receives in its     *)
(* `services` dict; a call into a service either returns what the service  *)
(* code returns or fails, and a failure is an environment fault counted in *)
(* `faults`.  The config is read through ConfigManager.__getattr__: the    *)
(* fields of cfgQueue are NoAttr when to_dict() has no TTS_QUEUE_SIZE /    *)
(* ALIGNED_QUEUE_SIZE entry (the config.py of this repository) and the two *)
(* capacities when the attributes resolve.                                 *)
(*                                                                         *)
(* Times are exact rationals scaled by the sample rate: a value t stands   *)
(* for t / TARGET_SR milliseconds, so len / sr * 1000 is len * 1000.       *)
(***************************************************************************)
EXTENDS Integers, Sequences, FiniteSets, TLC

\* ------------------------------------------------------------------ bounds
MaxSentences == 7
MaxQueueSize == 2
MaxFaults == 1
MaxExisting == 2
NumTasks == 2
NumCallers == 2
MaxNewSegments == 2
MaxBatches == 2
AudioSeconds == 4
MaxAlignBatch == 2
MaxClipSentences == 3
MaxUploadBatches == 6
MaxSynthSentences == 2

\* ------------------------------------------------------- program constants
TTS_BATCH_SIZE == 3
TARGET_SR == 24000
HLS_TIME == 10
UPLOAD_QUEUE_MAXSIZE == 10
MAX_ATTEMPTS == 3
RETRY_DELAY == 1
RETRY_BACKOFF == 2
SEMAPHORE_PERMITS == 3
MAX_BUFFER_SECONDS == 10

NoAttr == 0 - 1
NoMsg == <<>>
None == "None"
NoAudio == 0 - 1

VARIABLES
    cfgQueue,       \* config: [tts |-> n, aligned |-> m], NoAttr if missing
    pc,             \* position of run_complete_tts_pipeline
    result,         \* dict the run is about to return: [status, message]
    taskStatus,     \* media_tasks.status of the task row
    errorMessage,   \* media_tasks.error_message of the task row
    statusWrites,   \* history: status writes sent: {[writer, status, applied]}
    orchWrite,      \* last status write issued by the orchestrator
    bgWrites,       \* fire-and-forget status writes not yet executed
    faults,         \* number of environment faults injected so far
    kvFault,        \* which KV query of the fetch failed ("none" if none)
    sentences,      \* number of sentences the Fetcher returned
    synth,          \* synthesizer outcome per sentence: samples or NoAudio
    aligned,        \* samples of a sentence after apply_speed_and_silence
    audioPath,      \* path_manager.audio_file_path is set
    audioChain,     \* what _process_audio_chain returned and whether it sliced
    videoDl,        \* DataFetcher video download task
    videoPc,        \* _prepare_video_for_processing
    ttsPc, batch_counter, ttsPos,
    tts_queue, aligned_queue,
    alPc, alHeld, current_time_ms,
    coPc, coHeld, coResult, processed_segments,
    mergeResult,    \* what finalize_merge returned
    task_managers,  \* HLSManager.task_managers has an entry for the task
    playlist,       \* manager["playlist"].segments: [uri, discontinuity]
    sequence_number, has_segments, is_endlist, media_sequence,
    upload_queue,   \* HLSManager.upload_queues[task_id] (items, oldest first)
    queueExists,    \* task_id in HLSManager.upload_queues
    upWorker,       \* _upload_worker: none, idle, stopped, cancelled
    upStats,        \* _upload_worker: [upload_count, failed_count]
    tsFailed,       \* history: .ts files whose upload failed
    r2Ts,           \* object store: names of the .ts objects of the task
    r2Playlist,     \* object store: versions written to playlist.m3u8
    scratch,        \* the task's scratch directory exists
    produced,       \* history: batches the TTS producer put on Q1
    stamped,        \* history: batches the aligner put on Q2
    composed,       \* history: batches the compose worker took from Q2
    puts,           \* history: per queue, the types of the items put on it
    \* the HLSManager of the process, serving several tasks
    managers,       \* task_managers per task: [created, sequence_number, ...]
    locks,          \* per task, the caller holding self.locks[task_id]
    upload_queues,  \* per task: [exists, items]
    upload_workers, \* per task, the position of _upload_worker
    upload_semaphore, \* permits left in self.upload_semaphore
    callPc,         \* per caller, its position in the HLSManager
    callLocal,      \* per caller, the locals of its add_segment
    \* the MediaMixer of the process, serving several tasks
    full_audio_buffer, \* self.full_audio_buffer: per second, whose audio
    mixPc,          \* per task, the position of its mix_media call
    mixLocal,       \* per task, the arguments of its create_mixed_segment
    mixed,          \* per task, the number of segments mixed
    heard,          \* history: per task, whose audio its segments contain
    \* calls of the functions that work on their arguments alone
    unitPc,         \* idle, or done when a call has returned
    unitCall,       \* the function called and its arguments
    unitResult,     \* what the call returned
    \* the MyIndexTTSDeployment of the process, serving several tasks
    tts_lock,       \* per deployment, the caller holding self._lock
    synthPc,        \* per caller, its position in generate_audio_stream
    synthLeft       \* per caller, the sentences it has still to synthesise

pipelineVars == <<cfgQueue, pc, result, taskStatus, errorMessage, statusWrites,
          orchWrite, bgWrites, faults, kvFault, sentences, synth, aligned,
          audioPath, audioChain, videoDl, videoPc, ttsPc, batch_counter, ttsPos,
          tts_queue, aligned_queue, alPc, alHeld, current_time_ms,
          coPc, coHeld, coResult, processed_segments, mergeResult,
          task_managers, playlist, sequence_number, has_segments, is_endlist,
          media_sequence, upload_queue, queueExists, upWorker,
          upStats, tsFailed, r2Ts, r2Playlist, scratch, produced, stamped, composed,
          puts>>
managerVars == <<managers, locks, upload_queues, upload_workers,
                 upload_semaphore, callPc, callLocal>>
mixerVars == <<full_audio_buffer, mixPc, mixLocal, mixed, heard>>
unitVars == <<unitPc, unitCall, unitResult>>
synthVars == <<tts_lock, synthPc, synthLeft>>
processVars == <<managerVars, mixerVars, unitVars, synthVars>>
vars == <<pipelineVars, managerVars, mixerVars, unitVars, synthVars>>

orchVars == <<pc, result>>
d1Vars == <<taskStatus, errorMessage, statusWrites, orchWrite, bgWrites>>
fetchVars == <<kvFault, sentences, synth, aligned, audioPath, audioChain>>
ttsVars == <<ttsPc, batch_counter, ttsPos, produced>>
alVars == <<alPc, alHeld, current_time_ms, stamped>>
coVars == <<coPc, coHeld, coResult, processed_segments, mergeResult,
            composed>>
hlsVars == <<task_managers, playlist, sequence_number, has_segments,
             is_endlist, media_sequence, upload_queue, queueExists>>
upVars == <<upWorker>>
upHist == <<upStats, tsFailed>>
r2Vars == <<r2Ts, r2Playlist>>
queueVars == <<tts_queue, aligned_queue>>
videoVars == <<videoDl, videoPc>>

\* ---------------------------------------------------------------- helpers
Min(a, b) == IF a < b THEN a ELSE b
Max(a, b) == IF a > b THEN a ELSE b

RECURSIVE SumSeq(_)
SumSeq(s) == IF s = <<>> THEN 0 ELSE Head(s) + SumSeq(Tail(s))

CeilDiv(a, b) == (a + b - 1) \div b

\* a queue message of the orchestrator: {'type', 'data', 'batch_counter',
\* 'message'}; the keys a message does not carry hold neutral values
Item(t, d, c, m) == [type |-> t, data |-> d, batch_counter |-> c, message |-> m]
CompleteItem == Item("complete", <<>>, 0 - 1, NoMsg)
ErrorItem_AsComplete(m) == Item("complete", <<>>, 0 - 1, m)
ErrorItem(m) == Item("error", <<>>, 0 - 1, m)

\* asyncio.Queue(maxsize): put suspends while the queue holds maxsize items;
\* items leave in the order they were put
QueueFull_OffByOne(q, maxsize) == Len(q) > maxsize
QueueFull(q, maxsize) == Len(q) >= maxsize
Put_Lifo(q, item) == <<item>> \o q
Put(q, item) == Append(q, item)
Get(q) == Head(q)

\* the environment may inject one more fault
CanFault == faults < MaxFaults
Charge(ok) == faults' = IF ok THEN faults ELSE faults + 1

\* ------------------------------------------------------------ Store Gateway
\* D1Client.update_task_status: UPDATE media_tasks SET status = ?
\* [, error_message = ?]; returns False (never raises) when the query fails
update_task_status(row, status, error_message, applied) ==
    IF applied
    THEN [status |-> status,
          error_message |-> IF error_message # NoMsg THEN error_message
                            ELSE row.error_message]
    ELSE row

Row == [status |-> taskStatus, error_message |-> errorMessage]

\* the component a status write comes from
OrchestratorWriter == "orchestrator"
HlsWriter == "hls_manager"

\* what one call of D1Client.update_task_status gives its caller: every
\* exception is caught inside the client (lines 190-192)
ClientResult(applied) == IF applied THEN "True" ELSE "False"

\* async_retry: the call is repeated, after a sleep that grows by the
\* backoff factor, only when it raised; a returned value ends the loop.
\* `outcome` is what every attempt of the call gives.
async_retry(max_attempts, outcome) ==
    IF outcome = "raised" THEN max_attempts ELSE 1

RECURSIVE Delays(_, _)
Delays(attempts, current_delay) ==
    IF attempts <= 1 THEN <<>>
    ELSE <<current_delay>>
            \o Delays(attempts - 1, current_delay * RETRY_BACKOFF)

\* MainOrchestrator._update_task_status: one call of the client; the result
\* False is logged and returned, so the retry decorator sees no exception
_update_task_status(status, error_message, applied) ==
    LET row == update_task_status(Row, status, error_message, applied) IN
    /\ taskStatus' = row.status
    /\ errorMessage' = row.error_message
    /\ statusWrites' = statusWrites \cup
                          {[writer |-> OrchestratorWriter, status |-> status,
                            applied |-> applied]}
    /\ orchWrite' =
          [status |-> status, message |-> error_message, applied |-> applied,
           attempts |-> async_retry(MAX_ATTEMPTS, ClientResult(applied)),
           delays |-> Delays(async_retry(MAX_ATTEMPTS, ClientResult(applied)),
                             RETRY_DELAY)]
    /\ UNCHANGED bgWrites

\* asyncio.create_task(self.d1_client.update_task_status(...)) in HLSManager
HlsStatusTask(status, error_message) ==
    [writer |-> HlsWriter, status |-> status, message |-> error_message]

\* a fire-and-forget status write of the HLSManager reaches the store
BackgroundStatusWrite ==
    \E w \in bgWrites :
        LET row == update_task_status(Row, w.status, w.message, TRUE) IN
        /\ bgWrites' = bgWrites \ {w}
        /\ taskStatus' = row.status
        /\ errorMessage' = row.error_message
        /\ statusWrites' = statusWrites \cup
               {[writer |-> w.writer, status |-> w.status, applied |-> TRUE]}
        /\ UNCHANGED orchWrite
        /\ UNCHANGED <<processVars, cfgQueue, puts, upHist, orchVars, faults, fetchVars, videoVars,
                       ttsVars, queueVars, alVars, coVars, hlsVars, upVars,
                       r2Vars, scratch>>

\* ------------------------------------------------------------------- inputs
QueueConfigs ==
    {[tts |-> NoAttr, aligned |-> NoAttr]}
        \cup [tts : 1..MaxQueueSize, aligned : 1..MaxQueueSize]

\* what the synthesizer and the aligner make of the sentences of a task
AllOf(n, a) == [i \in 1..n |-> a]
Profiles(n) ==
    { [synth |-> AllOf(n, 4 * TARGET_SR), aligned |-> AllOf(n, 4 * TARGET_SR)],
      [synth |-> AllOf(n, 8 * TARGET_SR), aligned |-> AllOf(n, 4 * TARGET_SR)],
      [synth |-> [i \in 1..n |-> IF i = 1 THEN NoAudio ELSE 4 * TARGET_SR],
       aligned |-> [i \in 1..n |-> IF i = 1 THEN NoAudio ELSE 8 * TARGET_SR]] }

\* the playlist an interrupted earlier run of the task left in the object
\* store: n segments, one per batch, named and slashed as add_segment and
\* _save_playlist do
EarlierPlaylist(n) ==
    [segments |-> [k \in 1..n |->
                      [uri |-> <<1, k - 1, 0>>, discontinuity |-> TRUE]],
     is_endlist |-> FALSE, media_sequence |-> 0, origin |-> "earlier_run"]

\* the tasks one process serves, and the callers (pipeline runs) of a task
Tasks == 1..NumTasks
Callers == Tasks \X (1..NumCallers)
NoHolder == <<>>

\* the coroutines that call generate_audio_stream: the TTS producer of a
\* task and the re-synthesis of its Aligner; and the deployments a process
\* could hold (launcher.py builds one, number 0)
SynthCallers == Tasks \X {"tts_producer", "duration_aligner"}
Deployments == 0..NumTasks

\* HLSManager.__init__: no manager, no lock, no queue, no worker, and
\* upload_semaphore = asyncio.Semaphore(3)
NoManager == [created |-> FALSE, sequence_number |-> 0,
              has_segments |-> FALSE, is_endlist |-> FALSE]
NoQueue == [exists |-> FALSE, items |-> <<>>]
NoLocals == [sequence_number |-> 0, new_segment_files |-> 0]

\* no audio chain has run
NoChain == [separation |-> None, vocals_path |-> None,
            instrumental_path |-> None, sliced |-> FALSE]

NoResult == [status |-> None, message |-> NoMsg]
Success == [status |-> "success", message |-> <<"ok">>]
Error(m) == [status |-> "error", message |-> m]

Init ==
    /\ cfgQueue \in QueueConfigs
    /\ pc = "start"
    /\ result = NoResult
    /\ taskStatus = "pending"
    /\ errorMessage = NoMsg
    /\ statusWrites = {}
    /\ orchWrite = [status |-> None, message |-> NoMsg, applied |-> FALSE,
                    attempts |-> 0, delays |-> <<>>]
    /\ bgWrites = {}
    /\ faults = 0
    /\ kvFault = "none"
    /\ sentences = 0
    /\ synth = <<>>
    /\ aligned = <<>>
    /\ audioPath = FALSE
    /\ audioChain = NoChain
    /\ videoDl = "none"
    /\ videoPc = "none"
    /\ ttsPc = "none" /\ batch_counter = 0 /\ ttsPos = 1
    /\ tts_queue = <<>> /\ aligned_queue = <<>>
    /\ alPc = "none" /\ alHeld = CompleteItem /\ current_time_ms = 0
    /\ coPc = "none" /\ coHeld = CompleteItem /\ coResult = NoResult
    /\ processed_segments = <<>>
    /\ mergeResult = NoResult
    /\ task_managers = FALSE
    /\ playlist = <<>>
    /\ sequence_number = 0 /\ has_segments = FALSE /\ is_endlist = FALSE
    /\ media_sequence = 0
    /\ upload_queue = <<>> /\ queueExists = FALSE
    /\ upWorker = "none"
    /\ upStats = [upload_count |-> 0, failed_count |-> 0]
    /\ tsFailed = {}
    /\ \E n \in 0..MaxExisting :
          /\ r2Playlist = IF n = 0 THEN <<>> ELSE <<EarlierPlaylist(n)>>
          /\ r2Ts = {<<k - 1, 0>> : k \in 1..n}
    /\ scratch = FALSE
    /\ produced = <<>> /\ stamped = <<>> /\ composed = <<>>
    /\ puts = [tts |-> <<>>, aligned |-> <<>>]
    /\ managers = [t \in Tasks |-> NoManager]
    /\ locks = [t \in Tasks |-> NoHolder]
    /\ upload_queues = [t \in Tasks |-> NoQueue]
    /\ upload_workers = [t \in Tasks |-> "none"]
    /\ upload_semaphore = SEMAPHORE_PERMITS
    /\ callPc = [c \in Callers |-> "create"]
    /\ callLocal = [c \in Callers |-> NoLocals]
    /\ full_audio_buffer = <<>>
    /\ mixPc = [t \in Tasks |-> "idle"]
    /\ mixLocal = [t \in Tasks |-> [full_audio_buffer |-> <<>>,
                                     sentences |-> 0]]
    /\ mixed = [t \in Tasks |-> 0]
    /\ heard = [t \in Tasks |-> {}]
    /\ unitPc = "idle"
    /\ unitCall = [fn |-> "none"]
    /\ unitResult = [fn |-> "none"]
    /\ tts_lock = [d \in Deployments |-> NoHolder]
    /\ synthPc = [c \in SynthCallers |-> "idle"]
    /\ synthLeft = [c \in SynthCallers |-> 0]

\* ------------------------------------------------------------- Orchestrator
\* run_complete_tts_pipeline, line 99: the task is set to processing
StartPipeline ==
    /\ pc = "start"
    /\ \E applied \in BOOLEAN :
        /\ applied \/ CanFault
        /\ Charge(applied)
        /\ _update_task_status("processing", NoMsg, applied)
    /\ pc' = "fetch"
    /\ UNCHANGED <<processVars, cfgQueue, puts, upHist, result, fetchVars, videoVars, ttsVars, queueVars,
                   alVars, coVars, hlsVars, upVars, r2Vars, scratch>>

\* DataFetcher.fetch_task_data as _fetch_task_data sees it.  The two KV
\* reads run first; a failed query makes _execute_query return None, so the
\* segments read returns [] and the media-path read returns {}.
KvFaults == {"none", "task_row", "total_segments", "segments", "media_paths"}

FetchFailed(kv, n) == kv \in {"task_row", "segments"} \/ n = 0

\* what the download and the vocal separator give _process_audio_chain:
\* the separation succeeds, returns success False (a timeout or an error
\* inside separate_complete_audio), is skipped because the separator is
\* not available, or the audio download itself raises
AudioOutcomes ==
    {"separated", "separation_failed", "separation_unavailable",
     "download_failed"}

\* DataFetcher._process_audio_chain.  vocals_path and instrumental_path are
\* bound only in the branch of a successful separation (lines 253-254);
\* on the two other branches `if not vocals_path` (line 268) reads an
\* unbound local, the UnboundLocalError is caught at line 303 and the
\* chain returns (None, None, sentences) without slicing.
_process_audio_chain(audio) ==
    IF audio = "download_failed"
    THEN [separation |-> None, vocals_path |-> None,
          instrumental_path |-> None, sliced |-> FALSE]
    ELSE IF audio = "separated"
    THEN [separation |-> audio, vocals_path |-> "vocals.wav",
          instrumental_path |-> "instrumental.wav", sliced |-> TRUE]
    ELSE [separation |-> audio, vocals_path |-> None,
          instrumental_path |-> None, sliced |-> FALSE]

FetchTaskData ==
    /\ pc = "fetch"
    /\ \E kv \in KvFaults, n \in 0..MaxSentences, audio \in AudioOutcomes :
        /\ (kv = "none" /\ audio = "separated") \/ CanFault
        /\ kv # "none" => audio = "separated"
        /\ Charge(kv = "none" /\ audio = "separated")
        /\ kvFault' = kv
        /\ IF FetchFailed(kv, n)
           THEN \* the error dict of fetch_task_data is raised as
                \* ValueError and caught at line 142
                /\ result' = Error(<<"tts_flow_exception",
                                     "fetch_task_data_failed",
                                     "no_transcription_data">>)
                /\ pc' = "finish"
                /\ UNCHANGED <<sentences, synth, aligned, audioPath,
                               audioChain, videoDl, scratch>>
           ELSE /\ sentences' = n
                /\ \E p \in Profiles(n) :
                      synth' = p.synth /\ aligned' = p.aligned
                /\ audioChain' = IF kv = "media_paths" THEN NoChain
                                 ELSE _process_audio_chain(audio)
                \* set_media_paths is called only with a vocals path
                /\ audioPath' = (audioChain'.vocals_path # None)
                /\ videoDl' = IF kv = "media_paths" THEN "none" ELSE "running"
                \* path_manager.temp.media_dir (line 228) creates the
                \* scratch directory once the audio is downloaded
                /\ scratch' = (scratch \/ (kv # "media_paths"
                                            /\ audio # "download_failed"))
                /\ result' = result
                /\ pc' = "stream"
    /\ UNCHANGED <<processVars, cfgQueue, puts, upHist, d1Vars, videoPc, ttsVars, queueVars, alVars,
                   coVars, hlsVars, upVars, r2Vars>>

\* DataFetcher._download_video_file, running in the background
DownloadVideo ==
    /\ videoDl = "running"
    /\ \E ok \in BOOLEAN :
        /\ ok \/ CanFault
        /\ Charge(ok)
        /\ videoDl' = IF ok THEN "ok" ELSE "failed"
        \* the downloaded file is written under path_manager.temp.media_dir
        /\ scratch' = (scratch \/ ok)
    /\ UNCHANGED <<processVars, cfgQueue, puts, upHist, orchVars, d1Vars, fetchVars, videoPc, ttsVars,
                   queueVars, alVars, coVars, hlsVars, upVars, r2Vars>>

\* ConfigManager.__getattr__: the attribute resolves or AttributeError
HasAttr(value) == value # NoAttr

\* _process_tts_stream up to its first await (line 334): the queues are
\* built from the config and the first three tasks are created
StartStream ==
    /\ pc = "stream"
    /\ IF HasAttr(cfgQueue.tts) /\ HasAttr(cfgQueue.aligned)
       THEN /\ ttsPc' = "call"
            /\ alPc' = "get"
            /\ videoPc' = "waiting"
            /\ pc' = "await_video"
            /\ result' = result
       ELSE /\ result' = Error(<<"stream_processing_failed",
                                 "no_attribute_TTS_QUEUE_SIZE">>)
            /\ pc' = "finish"
            /\ UNCHANGED <<ttsPc, alPc, videoPc>>
    /\ UNCHANGED <<processVars, cfgQueue, puts, upHist, d1Vars, faults, fetchVars, videoDl,
                   batch_counter, ttsPos, produced, queueVars,
                   alHeld, current_time_ms, stamped, coVars, hlsVars, upVars,
                   r2Vars, scratch>>

\* DataFetcher.await_video_completion: the path of the downloaded video,
\* or None when there is no download task or the download failed
await_video_completion(video_download_task) ==
    IF video_download_task = "ok" THEN "video_file_path" ELSE None

\* _prepare_video_for_processing: a missing path is raised as ValueError
_prepare_video_for_processing_Unchecked(video_file_path) == "ok"
_prepare_video_for_processing(video_file_path) ==
    IF video_file_path = None THEN "raised" ELSE "ok"

PrepareVideo ==
    /\ videoPc = "waiting"
    /\ videoDl \in {"none", "ok", "failed"}
    /\ videoPc' = _prepare_video_for_processing(await_video_completion(videoDl))
    /\ UNCHANGED <<processVars, cfgQueue, puts, upHist, orchVars, d1Vars, faults, fetchVars, videoDl,
                   ttsVars, queueVars, alVars, coVars, hlsVars, upVars,
                   r2Vars, scratch>>

\* line 334: video_file_path = await video_task; then compose_task is created.
\* video_task: what the await finds, by the position of
\* _prepare_video_for_processing
video_task_NotAwaited(v) == IF v = "raised" THEN "raised" ELSE "returned"
video_task(v) ==
    IF v = "ok" THEN "returned" ELSE IF v = "raised" THEN "raised"
    ELSE "pending"

AwaitVideo ==
    /\ pc = "await_video"
    /\ video_task(videoPc) # "pending"
    /\ IF video_task(videoPc) = "returned"
       THEN /\ coPc' = "init"
            /\ pc' = "gather"
            /\ result' = result
       ELSE /\ result' = Error(<<"stream_processing_failed",
                                 "video_download_failed_or_empty">>)
            /\ pc' = "finish"
            /\ coPc' = coPc
    /\ UNCHANGED <<processVars, cfgQueue, puts, upHist, d1Vars, faults, fetchVars, videoVars, ttsVars,
                   queueVars, alVars, coHeld, coResult, mergeResult,
                   processed_segments,
                   composed, hlsVars, upVars, r2Vars, scratch>>

\* lines 346-373: what _process_tts_stream returns from the three results
GatherResult(tts, co, coRes) ==
    IF tts = "raised" THEN Error(<<"tts_production_failed">>)
    ELSE IF co = "raised"
         THEN Error(<<"media_compose_failed", "hls_manager_init_failed">>)
    ELSE IF coRes.status = "success" THEN coRes
    ELSE Error(coRes.message)

Gather ==
    /\ pc = "gather"
    /\ ttsPc \in {"done", "raised"}
    /\ alPc = "done"
    /\ coPc \in {"done", "raised"}
    /\ result' = GatherResult(ttsPc, coPc, coResult)
    /\ pc' = "finish"
    /\ UNCHANGED <<processVars, cfgQueue, puts, upHist, d1Vars, faults, fetchVars, videoVars, ttsVars,
                   queueVars, alVars, coVars, hlsVars, upVars, r2Vars,
                   scratch>>

\* TempFileManager.cleanup: the directory is removed only when forced or
\* when the config has a true CLEANUP_TEMP_FILES
CLEANUP_TEMP_FILES == FALSE
cleanup(dir, force) == IF force \/ CLEANUP_TEMP_FILES THEN FALSE ELSE dir

\* lines 133-152: the terminal status is written, then the finally block
FinalStatus_Truthy(res) == IF res # NoResult THEN "completed" ELSE "error"
FinalStatus(res) == IF res.status = "success" THEN "completed" ELSE "error"
FinalMessage_Dropped(res) == NoMsg
FinalMessage(res) == IF res.status = "success" THEN NoMsg ELSE res.message

FinishPipeline ==
    /\ pc = "finish"
    /\ \E applied \in BOOLEAN :
        /\ applied \/ CanFault
        /\ Charge(applied)
        /\ _update_task_status(FinalStatus(result), FinalMessage(result),
                               applied)
    /\ scratch' = cleanup(scratch, FALSE)
    /\ pc' = "done"
    /\ UNCHANGED <<processVars, cfgQueue, puts, upHist, result, fetchVars, videoVars, ttsVars, queueVars,
                   alVars, coVars, hlsVars, upVars, r2Vars>>

\* ------------------------------------------------------------ TTS producer
\* lines 110-116: duration is 0.0 without audio, else len / sr * 1000 ms
\* (times are in units of 1/TARGET_SR ms, so that is len * 1000 units)
Sentence(i, a) ==
    [id |-> i, generated_audio |-> a,
     duration |-> IF a = NoAudio THEN 0 ELSE a * 1000,
     adjusted_start |-> 0, adjusted_duration |-> 0]

\* line 142: the batch is yielded when it has batch_size sentences
ReachedBatchSize_Greater(batch) == Len(batch) > TTS_BATCH_SIZE
ReachedBatchSize(batch) == Len(batch) >= TTS_BATCH_SIZE

\* the loop of generate_audio_stream from sentence `pos` on, with `batch`
\* accumulated so far, up to its next yield: each sentence is appended,
\* with generated_audio None when its synthesis failed; a full batch is
\* yielded, and what is left after the last sentence is yielded by the
\* flush of lines 146-147
RECURSIVE Accumulate(_, _)
Accumulate(pos, batch) ==
    IF pos > sentences THEN batch
    ELSE LET next == Append(batch, Sentence(pos, synth[pos])) IN
         IF ReachedBatchSize(next) THEN next
         ELSE Accumulate(pos + 1, next)

\* MyIndexTTSDeployment.generate_audio_stream: the batch that starts at
\* sentence `pos`
generate_audio_stream(pos) == Accumulate(pos, <<>>)

\* the call of the injected service's generator: a service whose signature
\* does not take (sentences, path_manager) raises TypeError here
TtsCall ==
    /\ ttsPc = "call"
    /\ \E ok \in BOOLEAN :
        /\ ok \/ CanFault
        /\ Charge(ok)
        /\ ttsPc' = IF ok THEN "produce" ELSE "put_error"
    /\ UNCHANGED <<processVars, cfgQueue, puts, upHist, orchVars, d1Vars, fetchVars, videoVars,
                   batch_counter, ttsPos, produced, queueVars,
                   alVars, coVars, hlsVars, upVars, r2Vars, scratch>>

\* one turn of the async-for loop: the next batch is generated and put on
\* the TTS queue; put waits while the queue is full
TtsPutBatch ==
    /\ ttsPc = "produce"
    /\ ttsPos <= sentences
    /\ ~QueueFull(tts_queue, cfgQueue.tts)
    /\ LET batch == generate_audio_stream(ttsPos) IN
        /\ tts_queue' = Put(tts_queue,
                            Item("batch", batch, batch_counter, NoMsg))
        /\ puts' = [puts EXCEPT !.tts = Append(@, "batch")]
        /\ produced' = Append(produced,
                              [batch_counter |-> batch_counter,
                               ids |-> [k \in 1..Len(batch) |-> batch[k].id]])
        /\ ttsPos' = ttsPos + Len(batch)
        /\ batch_counter' = batch_counter + 1
    /\ UNCHANGED <<processVars, cfgQueue, upHist, orchVars, d1Vars, faults, fetchVars, videoVars,
                   ttsPc, aligned_queue, alVars, coVars, hlsVars,
                   upVars, r2Vars, scratch>>

\* line 936: the complete terminator
TtsPutComplete ==
    /\ ttsPc = "produce"
    /\ ttsPos > sentences
    /\ ~QueueFull(tts_queue, cfgQueue.tts)
    /\ tts_queue' = Put(tts_queue, CompleteItem)
    /\ puts' = [puts EXCEPT !.tts = Append(@, CompleteItem.type)]
    /\ ttsPc' = "done"
    /\ UNCHANGED <<processVars, cfgQueue, upHist, orchVars, d1Vars, faults, fetchVars, videoVars,
                   batch_counter, ttsPos, produced, aligned_queue,
                   alVars, coVars, hlsVars, upVars, r2Vars, scratch>>

\* lines 944-951: the error terminator, then the exception is re-raised
TtsPutError ==
    /\ ttsPc = "put_error"
    /\ ~QueueFull(tts_queue, cfgQueue.tts)
    /\ tts_queue' = Put(tts_queue, ErrorItem(<<"tts_exception">>))
    /\ puts' = [puts EXCEPT !.tts =
                   Append(@, ErrorItem(<<"tts_exception">>).type)]
    /\ ttsPc' = "raised"
    /\ UNCHANGED <<processVars, cfgQueue, upHist, orchVars, d1Vars, faults, fetchVars, videoVars,
                   batch_counter, ttsPos, produced, aligned_queue,
                   alVars, coVars, hlsVars, upVars, r2Vars, scratch>>

\* ------------------------------------------------------ aligner / stamper
\* DurationAligner as _align_batch sees it: the audio of every sentence is
\* replaced by its speed-adjusted, silence-padded version and duration is
\* set to its length; apply_speed_and_silence skips a sentence without
\* audio (duration_utils.py lines 31-34)
duration_aligner(batch) ==
    [k \in 1..Len(batch) |->
        IF batch[k].generated_audio = NoAudio THEN batch[k]
        ELSE [batch[k] EXCEPT !.generated_audio = aligned[batch[k].id],
                              !.duration = aligned[batch[k].id] * 1000]]

\* TimestampAdjuster.__call__, in units of 1/TARGET_SR ms:
\* len / sample_rate * 1000 ms is len * 1000 units
actual_duration_Unchecked(sentence) == sentence.generated_audio * 1000
actual_duration(sentence) ==
    IF sentence.generated_audio # NoAudio
    THEN sentence.generated_audio * 1000 ELSE 0

RECURSIVE StampFrom(_, _, _)
StampFrom(batch, k, current_time) ==
    IF k > Len(batch) THEN batch
    ELSE StampFrom([batch EXCEPT ![k].adjusted_start = current_time,
                                 ![k].adjusted_duration =
                                     actual_duration(batch[k])],
                   k + 1, current_time + actual_duration(batch[k]))

timestamp_adjuster(batch, start_time) == StampFrom(batch, 1, start_time)

\* line 460: where the next batch starts
NextTime_StartOnly(adjusted_batch) ==
    adjusted_batch[Len(adjusted_batch)].adjusted_start
NextTime(adjusted_batch) ==
    adjusted_batch[Len(adjusted_batch)].adjusted_start
        + adjusted_batch[Len(adjusted_batch)].adjusted_duration

\* one turn of _align_and_adjust_stream up to its put: an item is taken
\* from the TTS queue; a batch is aligned and stamped, or dropped when the
\* aligner fails (lines 449-450), or the loop body raises and the worker
\* puts the error terminator
AlignerGet ==
    /\ alPc = "get"
    /\ tts_queue # <<>>
    /\ tts_queue' = Tail(tts_queue)
    /\ LET queue_item == Get(tts_queue) IN
        IF queue_item.type = "batch"
        THEN \E outcome \in {"ok", "dropped", "raised"} :
            /\ outcome = "ok" \/ CanFault
            /\ Charge(outcome = "ok")
            /\ CASE outcome = "ok" ->
                    LET adjusted_batch ==
                          timestamp_adjuster(duration_aligner(queue_item.data),
                                             current_time_ms)
                    IN /\ current_time_ms' = NextTime(adjusted_batch)
                       /\ alHeld' = Item("aligned_batch", adjusted_batch,
                                         queue_item.batch_counter, NoMsg)
                       /\ stamped' = stamped \o adjusted_batch
                       /\ alPc' = "put"
                 [] outcome = "dropped" ->
                    UNCHANGED <<alPc, alHeld, current_time_ms, stamped>>
                 [] OTHER ->
                    \* lines 472-474: an exception in the loop body
                    /\ alHeld' = ErrorItem(<<"aligner_exception">>)
                    /\ alPc' = "put_last"
                    /\ UNCHANGED <<current_time_ms, stamped>>
        ELSE /\ alHeld' = queue_item
             /\ alPc' = "put_last"
             /\ UNCHANGED <<faults, current_time_ms, stamped>>
    /\ UNCHANGED <<processVars, cfgQueue, puts, upHist, orchVars, d1Vars, fetchVars, videoVars, ttsVars,
                   aligned_queue, coVars, hlsVars, upVars, r2Vars, scratch>>

\* the put on the aligned queue; it waits while the queue is full
AlignerPut ==
    /\ alPc \in {"put", "put_last"}
    /\ ~QueueFull(aligned_queue, cfgQueue.aligned)
    /\ aligned_queue' = Put(aligned_queue, alHeld)
    /\ puts' = [puts EXCEPT !.aligned = Append(@, alHeld.type)]
    /\ alPc' = IF alPc = "put" THEN "get" ELSE "done"
    /\ UNCHANGED <<processVars, cfgQueue, upHist, orchVars, d1Vars, faults, fetchVars, videoVars,
                   ttsVars, tts_queue, alHeld, current_time_ms, stamped,
                   coVars, hlsVars, upVars, r2Vars, scratch>>

\* ---------------------------------------------------------- HLS publisher
NoUri == <<>>
Discontinuity == [uri |-> NoUri, discontinuity |-> TRUE]
\* a .ts segment of the playlist: the URI is the file name
\* segment_<seq>_<k>.ts, with a leading slash once _save_playlist has run
TsSegment(seq, k) == [uri |-> <<0, seq, k>>, discontinuity |-> FALSE]
FileName(uri) == <<uri[2], uri[3]>>

\* _save_playlist: every URI that does not start with a slash gets one
_save_playlist(segments) ==
    [k \in 1..Len(segments) |->
        IF segments[k].uri = NoUri THEN segments[k]
        ELSE [segments[k] EXCEPT !.uri = <<1, segments[k].uri[2],
                                           segments[k].uri[3]>>]]

\* m3u8 dumps followed by loads: a segment without a URI is written as a
\* bare discontinuity tag, which attaches to the segment that follows it
RECURSIVE dumps(_, _)
dumps(segments, pending) ==
    IF segments = <<>> THEN <<>>
    ELSE IF Head(segments).uri = NoUri
         THEN dumps(Tail(segments), TRUE)
         ELSE <<[uri |-> Head(segments).uri,
                 discontinuity |-> pending \/ Head(segments).discontinuity]>>
              \o dumps(Tail(segments), FALSE)

\* a version of playlist.m3u8 in the object store; `origin` records the
\* operation that asked for the upload
PlaylistContent_Open(origin) ==
    [segments |-> dumps(playlist, FALSE), is_endlist |-> FALSE,
     media_sequence |-> media_sequence, origin |-> origin]
PlaylistContent(origin) ==
    [segments |-> dumps(playlist, FALSE), is_endlist |-> is_endlist,
     media_sequence |-> media_sequence, origin |-> origin]

\* what R2 holds for the task's playlist: the last version written
ExistingPlaylist == r2Playlist[Len(r2Playlist)]

\* create_manager, lines 92-106: the segments and the sequence number
\* taken over from the playlist found in the object store
restored_sequence_number_Zero(existing_segments) == 0
restored_sequence_number(existing_segments) == Len(existing_segments)

\* hls_segment: the .ts files cut from one MP4, one per HLS_TIME seconds
TsCount(batch) ==
    LET samples == SumSeq([k \in 1..Len(batch) |->
                              IF batch[k].generated_audio = NoAudio THEN 0
                              ELSE batch[k].generated_audio])
        n == CeilDiv(samples, HLS_TIME * TARGET_SR)
    IN IF n < 1 THEN 1 ELSE n

UploadItem(t, files) == [type |-> t, files |-> files]
StopSignal == UploadItem(None, {})

\* _upload_playlist_to_storage: the live playlist is serialised and
\* written; a successful write schedules a status write of its own
UploadPlaylist(ok, origin) ==
    /\ r2Playlist' = IF ok THEN Append(r2Playlist, PlaylistContent(origin)')
                     ELSE r2Playlist
    /\ bgWrites' = IF ok THEN bgWrites \cup {HlsStatusTask("processing", NoMsg)}
                   ELSE bgWrites

\* _init_hls_manager / create_manager.  The read of the stored playlist
\* may fail: get_existing_playlist_content then returns None and the
\* manager starts from an empty playlist (lines 105-106).
ComposeInit ==
    /\ coPc = "init"
    /\ \E outcome \in {"created", "read_failed", "raised"} :
        /\ outcome = "created" \/ CanFault
        /\ outcome = "read_failed" => r2Playlist # <<>>
        /\ Charge(outcome = "created")
        /\ IF outcome # "raised"
           THEN /\ task_managers' = TRUE
                /\ IF /\ outcome = "created"
                      /\ r2Playlist # <<>>
                      /\ ExistingPlaylist.segments # <<>>
                   THEN /\ playlist' =
                             _save_playlist(ExistingPlaylist.segments)
                        /\ sequence_number' = restored_sequence_number(
                                                  ExistingPlaylist.segments)
                        /\ has_segments' = TRUE
                        /\ media_sequence' = ExistingPlaylist.media_sequence
                   ELSE /\ playlist' = <<>>
                        /\ sequence_number' = 0
                        /\ has_segments' = FALSE
                        /\ media_sequence' = 0
                /\ is_endlist' = FALSE
                /\ queueExists' = TRUE
                /\ upload_queue' = <<>>
                /\ upWorker' = "idle"
                /\ coPc' = "get"
                \* get_temp_file and segments_dir (lines 73-74)
                /\ scratch' = TRUE
                /\ UNCHANGED bgWrites
           ELSE /\ bgWrites' = bgWrites \cup
                      {HlsStatusTask("error", <<"hls_manager_init_failed">>)}
                /\ coPc' = "raised"
                /\ UNCHANGED <<hlsVars, upWorker, scratch>>
    /\ UNCHANGED <<processVars, cfgQueue, puts, upHist, orchVars, taskStatus, errorMessage, statusWrites,
                   orchWrite, fetchVars, videoVars, ttsVars, queueVars,
                   alVars, coHeld, coResult, mergeResult,
                   processed_segments, composed,
                   r2Vars>>

\* mix_media returns None without the vocals path (line 153), and
\* create_mixed_segment fails when no sentence of the batch carries audio
\* (lines 241-244)
CanMix(batch) ==
    /\ audioPath
    /\ \E k \in 1..Len(batch) : batch[k].generated_audio # NoAudio

\* one turn of _compose_media_stream up to add_segment: an item is taken
\* from the aligned queue and a batch is mixed into an MP4
ComposeGet ==
    /\ coPc = "get"
    /\ aligned_queue # <<>>
    /\ aligned_queue' = Tail(aligned_queue)
    /\ LET queue_item == Get(aligned_queue) IN
        CASE queue_item.type = "complete" ->
                /\ coPc' = "finalize"
                /\ UNCHANGED <<faults, coHeld, coResult, composed>>
          [] queue_item.type = "error" ->
                /\ coResult' = Error(queue_item.message)
                /\ coPc' = "done"
                /\ UNCHANGED <<faults, coHeld, composed>>
          [] OTHER ->
                /\ composed' = Append(composed,
                      [batch_counter |-> queue_item.batch_counter,
                       ids |-> [k \in 1..Len(queue_item.data) |->
                                   queue_item.data[k].id]])
                /\ \E ok \in BOOLEAN :
                    /\ ok => CanMix(queue_item.data)
                    /\ ok \/ ~CanMix(queue_item.data) \/ CanFault
                    /\ Charge(ok \/ ~CanMix(queue_item.data))
                    /\ coPc' = IF ok THEN "add" ELSE "get"
                    /\ coHeld' = IF ok THEN queue_item ELSE coHeld
                /\ UNCHANGED coResult
    /\ UNCHANGED <<processVars, cfgQueue, puts, upHist, orchVars, d1Vars, fetchVars, videoVars, ttsVars,
                   tts_queue, alVars, processed_segments, mergeResult,
                   hlsVars, upVars, r2Vars, scratch>>

\* _queue_segment_upload / _queue_playlist_upload: put_nowait
CanQueue(q) == queueExists /\ Len(q) < UPLOAD_QUEUE_MAXSIZE

\* lines 563-573: a discontinuity marker, then the new .ts segments
append_segments_Reset(segments, new) == <<Discontinuity>> \o new
append_segments(segments, new) == segments \o <<Discontinuity>> \o new

\* HLSManager.add_segment as _add_hls_segment sees it
AddSegment ==
    /\ coPc = "add"
    /\ \E ok \in BOOLEAN :
        /\ ok \/ CanFault
        /\ Charge(ok)
        /\ IF ok
           THEN LET n == TsCount(coHeld.data)
                    new == [k \in 1..n |-> TsSegment(sequence_number, k - 1)]
                    files == {FileName(new[k].uri) : k \in 1..n}
                    q1 == IF CanQueue(upload_queue)
                          THEN Append(upload_queue,
                                      UploadItem("segments", files))
                          ELSE upload_queue
                IN /\ playlist' =
                         _save_playlist(append_segments(playlist, new))
                   /\ sequence_number' = sequence_number + n
                   /\ has_segments' = TRUE
                   /\ is_endlist' = FALSE
                   /\ UNCHANGED <<task_managers, media_sequence, queueExists>>
                   /\ r2Ts' = IF CanQueue(upload_queue) THEN r2Ts
                              ELSE r2Ts \cup files
                   /\ IF CanQueue(q1)
                      THEN /\ upload_queue' =
                                Append(q1, UploadItem("playlist", {}))
                           /\ UNCHANGED <<r2Playlist, bgWrites>>
                      ELSE /\ upload_queue' = q1
                           /\ UploadPlaylist(TRUE, "add_segment")
                   /\ processed_segments' =
                         Append(processed_segments, coHeld.batch_counter)
           ELSE UNCHANGED <<hlsVars, r2Vars, bgWrites, processed_segments>>
    /\ coPc' = "get"
    /\ UNCHANGED <<processVars, cfgQueue, puts, upHist, orchVars, taskStatus, errorMessage,
                   statusWrites, orchWrite, fetchVars, videoVars, ttsVars,
                   queueVars, alVars, coHeld, coResult, mergeResult,
                   composed, upVars, scratch>>

\* finalize_merge, step 1: finalize_playlist marks the playlist ended and
\* uploads it at once, ahead of whatever the upload queue still holds
FinalizePlaylist ==
    /\ coPc = "finalize"
    /\ IF task_managers /\ has_segments
       THEN /\ is_endlist' = TRUE
            /\ playlist' = _save_playlist(playlist)
            /\ UNCHANGED <<task_managers, sequence_number,
                           has_segments, media_sequence, upload_queue,
                           queueExists>>
            /\ \E ok \in BOOLEAN :
                /\ ok \/ CanFault
                /\ Charge(ok)
                /\ UploadPlaylist(ok, "finalize_playlist")
       ELSE UNCHANGED <<hlsVars, faults, r2Playlist, bgWrites>>
    /\ coPc' = "wait_uploads"
    /\ UNCHANGED <<processVars, cfgQueue, puts, upHist, orchVars, taskStatus, errorMessage, statusWrites,
                   orchWrite, fetchVars, videoVars, ttsVars, queueVars,
                   alVars, coHeld, coResult, mergeResult,
                   processed_segments, composed,
                   upVars, r2Ts, scratch>>

\* _wait_for_uploads_completion: join() returns when every queued item has
\* been processed, or the 60 s wait times out; then _stop_upload_worker
\* puts the stop signal
WaitUploads ==
    /\ coPc = "wait_uploads"
    /\ IF queueExists /\ upWorker # "none"
       THEN /\ \E joined \in BOOLEAN :
                /\ joined => upload_queue = <<>>
                /\ joined \/ (upload_queue # <<>> /\ CanFault)
                /\ Charge(joined)
            /\ Len(upload_queue) < UPLOAD_QUEUE_MAXSIZE
            /\ upload_queue' = Append(upload_queue, StopSignal)
            /\ coPc' = "stop_worker"
       ELSE /\ coPc' = "concat"
            /\ UNCHANGED <<faults, upload_queue>>
    /\ UNCHANGED <<processVars, cfgQueue, puts, upHist, orchVars, d1Vars, fetchVars, videoVars, ttsVars,
                   queueVars, alVars, coHeld, coResult, mergeResult,
                   processed_segments,
                   composed, task_managers, playlist, sequence_number,
                   has_segments, is_endlist, media_sequence, queueExists,
                   upVars, r2Vars, scratch>>

\* the worker still has items ahead of the stop signal: the join of
\* _wait_for_uploads_completion has timed out
JoinTimedOut == upload_queue # <<>> /\ Head(upload_queue) # StopSignal

\* _stop_upload_worker: the worker is awaited for 5 s and cancelled if it
\* has not ended; the queue and the worker reference are deleted, with
\* whatever the queue still holds.  A wait that expires behind a join that
\* timed out is the same slowness of the object store, not a further fault.
StopUploadWorker ==
    /\ coPc = "stop_worker"
    /\ \/ /\ upWorker = "stopped"
          /\ UNCHANGED <<faults, upWorker>>
       \/ /\ upWorker = "idle"
          /\ CanFault \/ JoinTimedOut
          /\ Charge(JoinTimedOut)
          /\ upWorker' = "cancelled"
    /\ queueExists' = FALSE
    /\ upload_queue' = <<>>
    /\ coPc' = "concat"
    /\ UNCHANGED <<processVars, cfgQueue, puts, upHist, orchVars, d1Vars, fetchVars, videoVars, ttsVars,
                   queueVars, alVars, coHeld, coResult, mergeResult,
                   processed_segments,
                   composed, task_managers, playlist, sequence_number,
                   has_segments, is_endlist, media_sequence, r2Vars,
                   scratch>>

\* finalize_merge, step 2, and what _compose_media_stream returns for it
\* (lines 519-524)
finalize_merge(segments, concatOk) ==
    IF segments = <<>> THEN Error(<<"no_segments_to_merge">>)
    ELSE IF concatOk THEN Success
    ELSE Error(<<"concat_failed">>)

ComposeResult(res) ==
    IF res.status = "success" THEN res ELSE Error(<<"hls_finalize_failed">>)

ConcatVideos ==
    /\ coPc = "concat"
    /\ \E ok \in BOOLEAN :
        /\ ok \/ (processed_segments # <<>> /\ CanFault)
        /\ Charge(ok)
        /\ mergeResult' = finalize_merge(processed_segments, ok)
        /\ coResult' = ComposeResult(mergeResult')
    /\ coPc' = "done"
    /\ UNCHANGED <<processVars, cfgQueue, puts, upHist, orchVars, d1Vars, fetchVars, videoVars, ttsVars,
                   queueVars, alVars, coHeld, processed_segments, composed,
                   hlsVars, upVars, r2Vars, scratch>>

\* R2HLSStorageManager.batch_upload_segments: the files are uploaded one
\* by one; `uploaded` are those whose upload succeeded
batch_upload_segments(files, uploaded) ==
    IF uploaded = files THEN "success"
    ELSE IF uploaded # {} THEN "partial"
    ELSE "error"

\* _process_upload_item, line 246: what counts as a successful batch
UploadSucceeded_AllOrNothing(status) == status = "success"
UploadSucceeded(status) == status \in {"success", "partial"}

\* _upload_worker, lines 196-201: the worker's two counters
Count(stats, success) ==
    IF success
    THEN [stats EXCEPT !.upload_count = stats.upload_count + 1]
    ELSE [stats EXCEPT !.failed_count = stats.failed_count + 1]

\* _upload_worker: one item of the upload queue is processed
UploadWorker ==
    /\ upWorker = "idle"
    /\ queueExists
    /\ upload_queue # <<>>
    /\ upload_queue' = Tail(upload_queue)
    /\ UNCHANGED <<playlist, is_endlist, media_sequence>>
    /\ LET upload_item == Head(upload_queue) IN
        CASE upload_item = StopSignal ->
                /\ upWorker' = "stopped"
                /\ UNCHANGED <<faults, r2Vars, bgWrites, upHist>>
          [] upload_item.type = "segments" ->
                /\ \E uploaded \in SUBSET upload_item.files :
                    /\ uploaded = upload_item.files \/ CanFault
                    /\ Charge(uploaded = upload_item.files)
                    /\ r2Ts' = r2Ts \cup uploaded
                    /\ tsFailed' = tsFailed \cup (upload_item.files \ uploaded)
                    /\ upStats' = Count(upStats, UploadSucceeded(
                          batch_upload_segments(upload_item.files, uploaded)))
                /\ UNCHANGED <<upWorker, r2Playlist, bgWrites>>
          [] OTHER ->
                /\ \E ok \in BOOLEAN :
                    /\ ok \/ CanFault
                    /\ Charge(ok)
                    /\ UploadPlaylist(ok, "add_segment")
                /\ upStats' = Count(upStats, TRUE)
                /\ UNCHANGED <<upWorker, r2Ts, tsFailed>>
    /\ UNCHANGED <<processVars, cfgQueue, puts, orchVars, taskStatus, errorMessage, statusWrites,
                   orchWrite, fetchVars, videoVars, ttsVars, queueVars,
                   alVars, coVars, task_managers, sequence_number,
                   has_segments, queueExists, scratch>>

\* ------------------------------------------------------------------- runs
Next ==
    \/ StartPipeline
    \/ FetchTaskData
    \/ DownloadVideo
    \/ StartStream
    \/ PrepareVideo
    \/ AwaitVideo
    \/ Gather
    \/ FinishPipeline
    \/ TtsCall
    \/ TtsPutBatch
    \/ TtsPutComplete
    \/ TtsPutError
    \/ AlignerGet
    \/ AlignerPut
    \/ ComposeInit
    \/ ComposeGet
    \/ AddSegment
    \/ FinalizePlaylist
    \/ WaitUploads
    \/ StopUploadWorker
    \/ ConcatVideos
    \/ UploadWorker
    \/ BackgroundStatusWrite

Spec == Init /\ [][Next]_vars

\* ------------------------------------------------- a run that is cancelled
\* BackgroundTaskManager.cancel_all (utils/async_utils.py lines 76-90)
\* cancels the task that runs run_complete_tts_pipeline.  CancelledError is
\* no Exception: no `except Exception` of the orchestrator or of a worker
\* catches it, and only the finally block of orchestrator.py lines 148-152 runs.

\* what Task.cancel makes of a worker that gather is waiting for
Cancelled(position, ended) ==
    IF position \in ended THEN position ELSE "cancelled"

\* the run is cancelled at one of its awaits.  Awaiting video_task passes
\* the cancellation on to video_task alone; asyncio.gather passes it on to
\* the three tasks it waits for; the upload worker and the download task
\* were created elsewhere and are not reached.
CancelRun ==
    /\ pc \in {"start", "fetch", "await_video", "gather", "finish"}
    /\ pc' = "cancelled"
    /\ videoPc' = IF pc = "await_video"
                  THEN Cancelled(videoPc, {"ok", "raised"}) ELSE videoPc
    /\ ttsPc' = IF pc = "gather"
                THEN Cancelled(ttsPc, {"done", "raised"}) ELSE ttsPc
    /\ alPc' = IF pc = "gather" THEN Cancelled(alPc, {"done"}) ELSE alPc
    /\ coPc' = IF pc = "gather"
               THEN Cancelled(coPc, {"done", "raised"}) ELSE coPc
    /\ scratch' = cleanup(scratch, FALSE)
    /\ UNCHANGED <<processVars, cfgQueue, puts, upHist, result, d1Vars,
                   faults, fetchVars, videoDl, batch_counter, ttsPos,
                   produced, queueVars, alHeld, current_time_ms, stamped,
                   coHeld, coResult, processed_segments, mergeResult,
                   composed, hlsVars, upVars, r2Vars>>

\* one configuration of the queues and no earlier run
CancelInit ==
    /\ Init
    /\ cfgQueue = [tts |-> 1, aligned |-> 1]
    /\ r2Playlist = <<>>

CancelNext == Next \/ CancelRun

CancelSpec == CancelInit /\ [][CancelNext]_vars

\* ------------------------------------------- one HLSManager, several tasks
\* The HLSManager is one object per process (launcher.py line 62); its
\* dicts are keyed by task_id and its semaphore is shared by all tasks.
\* A caller is a pipeline run: create_manager, add_segment calls, then
\* finalize_playlist.
TaskOf(c) == c[1]

\* asyncio.Lock: `async with self.locks[task_id]` goes on only when no
\* caller holds the lock
LockFree_Always(t) == TRUE
LockFree(t) == locks[t] = NoHolder

\* put_nowait succeeds when the task has a queue and the queue is not full
CanPut(t) ==
    /\ upload_queues[t].exists
    /\ Len(upload_queues[t].items) < UPLOAD_QUEUE_MAXSIZE
PutNowait(t, type) ==
    [upload_queues EXCEPT ![t].items = Append(@, type)]

\* create_manager: an existing manager is returned as it is (lines 64-66);
\* otherwise the manager is stored with sequence_number 0 and
\* _init_parallel_upload builds the queue and starts the worker, or fails
\* and leaves the task without a queue (lines 164-166)
CreateManager(c) ==
    LET t == TaskOf(c) IN
    /\ callPc[c] = "create"
    /\ callPc' = [callPc EXCEPT ![c] = "add"]
    /\ IF managers[t].created
       THEN UNCHANGED <<managers, upload_queues, upload_workers>>
       ELSE \E queueOk \in BOOLEAN :
              /\ managers' = [managers EXCEPT ![t] =
                                 [NoManager EXCEPT !.created = TRUE]]
              /\ upload_queues' = [upload_queues EXCEPT ![t] =
                                      [exists |-> queueOk, items |-> <<>>]]
              /\ upload_workers' = [upload_workers EXCEPT ![t] =
                                       IF queueOk THEN "get" ELSE "none"]
    /\ UNCHANGED <<locks, upload_semaphore, callLocal>>
    /\ UNCHANGED <<pipelineVars, mixerVars, unitVars, synthVars>>

\* add_segment, lines 533-538: the lock is taken and sequence_number read
AddSegmentEnter(c) ==
    LET t == TaskOf(c) IN
    /\ callPc[c] = "add"
    /\ LockFree(t)
    /\ locks' = [locks EXCEPT ![t] = c]
    /\ callLocal' = [callLocal EXCEPT ![c] =
                        [sequence_number |-> managers[t].sequence_number,
                         new_segment_files |-> 0]]
    /\ callPc' = [callPc EXCEPT ![c] = "hls_segment"]
    /\ UNCHANGED <<managers, upload_queues, upload_workers, upload_semaphore>>
    /\ UNCHANGED <<pipelineVars, mixerVars, unitVars, synthVars>>

\* lines 552-577: hls_segment returns n new .ts files, which are queued
\* for upload or, without a usable queue, uploaded synchronously; when it
\* raises, add_segment returns an error (lines 602-605)
AddSegmentQueue(c) ==
    LET t == TaskOf(c) IN
    /\ callPc[c] = "hls_segment"
    /\ \E n \in 0..MaxNewSegments :
        IF n = 0
        THEN /\ locks' = [locks EXCEPT ![t] = NoHolder]
             /\ callPc' = [callPc EXCEPT ![c] = "finalize"]
             /\ callLocal' = [callLocal EXCEPT ![c] = NoLocals]
             /\ UNCHANGED upload_queues
        ELSE /\ callLocal' = [callLocal EXCEPT ![c].new_segment_files = n]
             /\ IF CanPut(t)
                THEN /\ upload_queues' = PutNowait(t, "segments")
                     /\ callPc' = [callPc EXCEPT ![c] = "queued"]
                ELSE /\ callPc' = [callPc EXCEPT ![c] = "fallback_segments"]
                     /\ UNCHANGED upload_queues
             /\ UNCHANGED locks
    /\ UNCHANGED <<managers, upload_workers, upload_semaphore>>
    /\ UNCHANGED <<pipelineVars, mixerVars, unitVars, synthVars>>

\* _fallback_sync_upload_segments has returned
FallbackSegmentsDone(c) ==
    /\ callPc[c] = "fallback_segments"
    /\ callPc' = [callPc EXCEPT ![c] = "queued"]
    /\ UNCHANGED <<managers, locks, upload_queues, upload_workers,
                   upload_semaphore, callLocal>>
    /\ UNCHANGED <<pipelineVars, mixerVars, unitVars, synthVars>>

\* lines 580-591: sequence_number grows by the number of new segments, the
\* playlist is saved and its upload queued or, without a usable queue,
\* done synchronously
AddSegmentCommit(c) ==
    LET t == TaskOf(c) IN
    /\ callPc[c] = "queued"
    /\ managers' = [managers EXCEPT
                       ![t].sequence_number =
                           @ + callLocal[c].new_segment_files,
                       ![t].has_segments = TRUE,
                       ![t].is_endlist = FALSE]
    /\ IF CanPut(t)
       THEN /\ upload_queues' = PutNowait(t, "playlist")
            /\ callPc' = [callPc EXCEPT ![c] = "add_return"]
       ELSE /\ callPc' = [callPc EXCEPT ![c] = "fallback_playlist"]
            /\ UNCHANGED upload_queues
    /\ UNCHANGED <<locks, upload_workers, upload_semaphore, callLocal>>
    /\ UNCHANGED <<pipelineVars, mixerVars, unitVars, synthVars>>

\* _upload_playlist_to_storage, called from _queue_playlist_upload, has
\* returned
FallbackPlaylistDone(c) ==
    /\ callPc[c] = "fallback_playlist"
    /\ callPc' = [callPc EXCEPT ![c] = "add_return"]
    /\ UNCHANGED <<managers, locks, upload_queues, upload_workers,
                   upload_semaphore, callLocal>>
    /\ UNCHANGED <<pipelineVars, mixerVars, unitVars, synthVars>>

\* lines 594-600: the temporary playlist is removed, the lock released
AddSegmentReturn(c) ==
    LET t == TaskOf(c) IN
    /\ callPc[c] = "add_return"
    /\ locks' = [locks EXCEPT ![t] = NoHolder]
    /\ callPc' = [callPc EXCEPT ![c] = "finalize"]
    /\ callLocal' = [callLocal EXCEPT ![c] = NoLocals]
    /\ UNCHANGED <<managers, upload_queues, upload_workers,
                   upload_semaphore>>
    /\ UNCHANGED <<pipelineVars, mixerVars, unitVars, synthVars>>

\* finalize_playlist, lines 624-636: under the lock; with segments the
\* playlist is ended, saved and uploaded by the caller itself; without
\* segments the call returns a warning at once
FinalizePlaylistEnter(c) ==
    LET t == TaskOf(c) IN
    /\ callPc[c] = "finalize"
    /\ LockFree(t)
    /\ IF managers[t].has_segments
       THEN /\ locks' = [locks EXCEPT ![t] = c]
            /\ managers' = [managers EXCEPT ![t].is_endlist = TRUE]
            /\ callPc' = [callPc EXCEPT ![c] = "final_upload"]
       ELSE /\ callPc' = [callPc EXCEPT ![c] = "done"]
            /\ UNCHANGED <<locks, managers>>
    /\ UNCHANGED <<upload_queues, upload_workers, upload_semaphore, callLocal>>
    /\ UNCHANGED <<pipelineVars, mixerVars, unitVars, synthVars>>

\* lines 636-638: the playlist upload has returned, the lock is released
FinalizePlaylistReturn(c) ==
    LET t == TaskOf(c) IN
    /\ callPc[c] = "final_upload"
    /\ locks' = [locks EXCEPT ![t] = NoHolder]
    /\ callPc' = [callPc EXCEPT ![c] = "done"]
    /\ UNCHANGED <<managers, upload_queues, upload_workers,
                   upload_semaphore, callLocal>>
    /\ UNCHANGED <<pipelineVars, mixerVars, unitVars, synthVars>>

\* _upload_worker, line 182: an item is taken from the task's queue
WorkerGet(t) ==
    /\ upload_workers[t] = "get"
    /\ upload_queues[t].items # <<>>
    /\ upload_queues' = [upload_queues EXCEPT ![t].items = Tail(@)]
    /\ upload_workers' = [upload_workers EXCEPT ![t] = "acquire"]
    /\ UNCHANGED <<managers, locks, upload_semaphore, callPc, callLocal>>
    /\ UNCHANGED <<pipelineVars, mixerVars, unitVars, synthVars>>

\* line 193: `async with self.upload_semaphore`
WorkerAcquire(t) ==
    /\ upload_workers[t] = "acquire"
    /\ upload_semaphore > 0
    /\ upload_semaphore' = upload_semaphore - 1
    /\ upload_workers' = [upload_workers EXCEPT ![t] = "uploading"]
    /\ UNCHANGED <<managers, locks, upload_queues, callPc, callLocal>>
    /\ UNCHANGED <<pipelineVars, mixerVars, unitVars, synthVars>>

\* lines 194-204: _process_upload_item has returned, the permit is given
\* back
WorkerRelease(t) ==
    /\ upload_workers[t] = "uploading"
    /\ upload_semaphore' = upload_semaphore + 1
    /\ upload_workers' = [upload_workers EXCEPT ![t] = "get"]
    /\ UNCHANGED <<managers, locks, upload_queues, callPc, callLocal>>
    /\ UNCHANGED <<pipelineVars, mixerVars, unitVars, synthVars>>

\* one process state of the single-task model, so that only the
\* HLSManager moves
OnePipeline ==
    /\ cfgQueue = [tts |-> NoAttr, aligned |-> NoAttr]
    /\ r2Playlist = <<>>

HlsInit == Init /\ OnePipeline

HlsNext ==
    \/ \E c \in Callers :
          \/ CreateManager(c)
          \/ AddSegmentEnter(c)
          \/ AddSegmentQueue(c)
          \/ FallbackSegmentsDone(c)
          \/ AddSegmentCommit(c)
          \/ FallbackPlaylistDone(c)
          \/ AddSegmentReturn(c)
          \/ FinalizePlaylistEnter(c)
          \/ FinalizePlaylistReturn(c)
    \/ \E t \in Tasks :
          \/ WorkerGet(t)
          \/ WorkerAcquire(t)
          \/ WorkerRelease(t)

HlsSpec == HlsInit /\ [][HlsNext]_vars

\* -------------------------------------------- one MediaMixer, several tasks
\* The MediaMixer is one object per process (launcher.py line 61) and
\* full_audio_buffer is an attribute of it, set empty in __init__ only.
\* The buffer is modelled second by second, each second tagged with the
\* task whose audio it is.
AudioOf(t, n) == [k \in 1..(n * AudioSeconds) |-> t]

\* create_mixed_segment, lines 281-285: the sliding window
SlidingWindow(buffer) ==
    IF Len(buffer) > MAX_BUFFER_SECONDS
    THEN SubSeq(buffer, Len(buffer) - MAX_BUFFER_SECONDS + 1, Len(buffer))
    ELSE buffer

\* _concat_audio_segments with apply_fade_effect: from the second sentence
\* of the batch on, the head of the sentence is blended with the tail of
\* the buffer it was given
Crossfaded(buffer, n) ==
    IF n >= 2 /\ buffer # <<>> THEN {buffer[Len(buffer)]} ELSE {}

\* mix_media up to its first await: create_mixed_segment is called with
\* the buffer of the mixer as it is now (line 170)
MixMediaCall(t) ==
    /\ mixPc[t] = "idle"
    /\ mixed[t] < MaxBatches
    /\ \E n \in 1..TTS_BATCH_SIZE :
          mixLocal' = [mixLocal EXCEPT ![t] =
                          [full_audio_buffer |-> full_audio_buffer,
                           sentences |-> n]]
    /\ mixPc' = [mixPc EXCEPT ![t] = "create_mixed_segment"]
    /\ UNCHANGED <<full_audio_buffer, mixed, heard>>
    /\ UNCHANGED <<pipelineVars, managerVars, unitVars, synthVars>>

\* create_mixed_segment has returned: on success the mixer's buffer is
\* replaced by the updated one (line 181); on failure mix_media returns
\* None and leaves the buffer (lines 174-176)
MixMediaReturn(t) ==
    /\ mixPc[t] = "create_mixed_segment"
    /\ \E success \in BOOLEAN :
        IF success
        THEN /\ full_audio_buffer' =
                   SlidingWindow(mixLocal[t].full_audio_buffer
                                   \o AudioOf(t, mixLocal[t].sentences))
             /\ heard' = [heard EXCEPT ![t] =
                             @ \cup {t}
                               \cup Crossfaded(mixLocal[t].full_audio_buffer,
                                               mixLocal[t].sentences)]
             /\ mixed' = [mixed EXCEPT ![t] = @ + 1]
        ELSE UNCHANGED <<full_audio_buffer, heard, mixed>>
    /\ mixPc' = [mixPc EXCEPT ![t] = "idle"]
    /\ UNCHANGED mixLocal
    /\ UNCHANGED <<pipelineVars, managerVars, unitVars, synthVars>>

MixerInit == Init /\ OnePipeline

MixerNext ==
    \E t \in Tasks : MixMediaCall(t) \/ MixMediaReturn(t)

MixerSpec == MixerInit /\ [][MixerNext]_vars

\* ------------------------------------- the compose worker and the uploader
\* The compose worker of one run with its HLSManager and upload worker,
\* fed with as many aligned batches as it takes to fill the upload queue.
\* The workers upstream of Q2 are left out: what they put on Q2 arrives.

\* _process_tts_stream, lines 336-340: the video is prepared, the vocals
\* path is set and the compose task is created
ComposeTaskCreated ==
    /\ coPc = "none"
    /\ coPc' = "init"
    /\ audioPath' = TRUE
    /\ UNCHANGED <<processVars, cfgQueue, puts, upHist, orchVars, d1Vars,
                   faults, kvFault, sentences, synth, aligned, audioChain,
                   videoVars, ttsVars, queueVars, alVars, coHeld, coResult,
                   processed_segments, mergeResult, composed, hlsVars,
                   upVars, r2Vars, scratch>>

\* the batch_counter-th aligned batch: one sentence with audio
AlignedBatch(counter) ==
    Item("aligned_batch", <<Sentence(counter + 1, 4 * TARGET_SR)>>,
         counter, NoMsg)

\* _align_and_adjust_stream, lines 433-465, seen from Q2: the next aligned
\* batch or the complete terminator is put on the aligned queue
AlignedArrives ==
    /\ coPc # "none"
    /\ aligned_queue = <<>>
    /\ ~(\E k \in 1..Len(puts.aligned) : puts.aligned[k] = CompleteItem.type)
    /\ \E item \in {AlignedBatch(Len(puts.aligned)), CompleteItem} :
        /\ item = CompleteItem \/ Len(puts.aligned) < MaxUploadBatches
        /\ aligned_queue' = Put(aligned_queue, item)
        /\ puts' = [puts EXCEPT !.aligned = Append(@, item.type)]
    /\ UNCHANGED <<processVars, cfgQueue, upHist, orchVars, d1Vars, faults,
                   fetchVars, videoVars, ttsVars, tts_queue, alVars, coVars,
                   hlsVars, upVars, r2Vars, scratch>>

UploadInit == Init /\ OnePipeline

UploadNext ==
    \/ ComposeTaskCreated
    \/ AlignedArrives
    \/ ComposeInit
    \/ ComposeGet
    \/ AddSegment
    \/ FinalizePlaylist
    \/ WaitUploads
    \/ StopUploadWorker
    \/ ConcatVideos
    \/ UploadWorker

UploadSpec == UploadInit /\ [][UploadNext]_vars

\* ------------------------------------- one synthesizer, several callers
\* launcher.py lines 54-58: services['tts'] is one MyIndexTTSDeployment and
\* the DurationAligner is given the same object as index_tts; the
\* orchestrator of every task takes both from the one services dict.
\* index_tts: the deployment whose generate_audio_stream a caller runs.
index_tts_PerTask(c) == c[1]
index_tts(c) == 0

\* generate_audio_stream is called with the sentences of a task (the TTS
\* producer) or with the simplified sentences of a batch (the Aligner)
GenerateCall(c) ==
    /\ synthPc[c] = "idle"
    /\ \E n \in 1..MaxSynthSentences :
          synthLeft' = [synthLeft EXCEPT ![c] = n]
    /\ synthPc' = [synthPc EXCEPT ![c] = "lock"]
    /\ UNCHANGED tts_lock
    /\ UNCHANGED <<pipelineVars, managerVars, mixerVars, unitVars>>

\* line 96: `async with self._lock`, then tts_model.infer runs in a thread
LockAcquire(c) ==
    /\ synthPc[c] = "lock"
    /\ tts_lock[index_tts(c)] = NoHolder
    /\ tts_lock' = [tts_lock EXCEPT ![index_tts(c)] = c]
    /\ synthPc' = [synthPc EXCEPT ![c] = "infer"]
    /\ UNCHANGED synthLeft
    /\ UNCHANGED <<pipelineVars, managerVars, mixerVars, unitVars>>

\* lines 97-106: infer has returned or raised; the lock is released and
\* the loop goes to the next sentence, or the generator ends
InferReturn(c) ==
    /\ synthPc[c] = "infer"
    /\ tts_lock' = [tts_lock EXCEPT ![index_tts(c)] = NoHolder]
    /\ synthLeft' = [synthLeft EXCEPT ![c] = @ - 1]
    /\ synthPc' = [synthPc EXCEPT ![c] =
                      IF synthLeft[c] > 1 THEN "lock" ELSE "done"]
    /\ UNCHANGED <<pipelineVars, managerVars, mixerVars, unitVars>>

SynthInit == Init /\ OnePipeline

SynthNext ==
    \E c \in SynthCallers :
        GenerateCall(c) \/ LockAcquire(c) \/ InferReturn(c)

SynthSpec == SynthInit /\ [][SynthNext]_vars

\* ------------------------------------------- Sentence, Aligner and Slicer
\* The functions below take their whole input as arguments; UnitSpec calls
\* each of them on the inputs of bounded sets and keeps call and result.
Frac(n, d) == [num |-> n, den |-> d]
NoCall == [fn |-> "none"]
NoReturn == [fn |-> "none"]

\* target_duration = None
NoDuration == 0 - 1

\* Sentence.__post_init__: the fields computed when they were not given;
\* target_duration is None or a number, duration is a number (default 0.0)
__post_init__(start_ms, end_ms, target_duration, duration) ==
    LET target == IF target_duration = NoDuration
                  THEN Frac(end_ms - start_ms, 1000)
                  ELSE Frac(target_duration, 1)
        dur == IF duration = 0 THEN target ELSE Frac(duration, 1)
    IN  [fn |-> "Sentence", start_ms |-> start_ms, end_ms |-> end_ms,
         target_duration |-> target,
         duration |-> dur,
         speech_duration |-> Frac(dur.num * 9, dur.den * 10),
         silence_duration |-> Frac(dur.num * 1, dur.den * 10)]

\* ---- align_batch; durations are integers in units of 100 ms
\* the literal 0.001 (ms) of max(s.adjusted_duration, 0.001), as 1/FLOOR_DEN
\* of the unit
FLOOR_DEN == 100000
\* the literal 0.12 of max_slowdown, in percent
MAX_SLOWDOWN_PERCENT == 12
\* max_speed = 1.2 as the orchestrator passes it, in tenths
MAX_SPEED_TENTHS == 12

\* max(adjusted_duration, 0.001)
FloorAdjusted(a) ==
    IF a.num >= CeilDiv(a.den, FLOOR_DEN) THEN a ELSE Frac(1, FLOOR_DEN)

\* s.duration / max(s.adjusted_duration, 0.001)
SpeedOf(duration, adjusted) ==
    LET a == FloorAdjusted(adjusted) IN Frac(duration * a.den, a.num)

align_batch(batch) ==
    LET diff == [k \in 1..Len(batch) |->
                    batch[k].duration - batch[k].target_duration]
        total_diff_to_adjust == SumSeq(diff)
        positive_diff_sum ==
            SumSeq([k \in 1..Len(batch) |-> IF diff[k] > 0 THEN diff[k] ELSE 0])
        negative_diff_sum_abs ==
            SumSeq([k \in 1..Len(batch) |-> IF diff[k] < 0 THEN 0 - diff[k] ELSE 0])
        speed(k) ==
            LET d == batch[k].duration IN
            IF total_diff_to_adjust > 0 /\ diff[k] > 0 /\ positive_diff_sum > 0
            THEN \* adjusted = d - total * diff / positive
                 SpeedOf(d, Frac(d * positive_diff_sum
                                   - total_diff_to_adjust * diff[k],
                                 positive_diff_sum))
            ELSE IF total_diff_to_adjust < 0 /\ diff[k] < 0
                    /\ negative_diff_sum_abs > 0
            THEN \* both over the denominator 100 * negative_diff_sum_abs
                 LET den == 100 * negative_diff_sum_abs
                     total_needed == 100 * (0 - total_diff_to_adjust)
                                         * (0 - diff[k])
                     max_slowdown == MAX_SLOWDOWN_PERCENT * d
                                         * negative_diff_sum_abs
                     slowdown == Min(total_needed, max_slowdown)
                 IN  SpeedOf(d, Frac(d * den + slowdown, den))
            ELSE Frac(1, 1)
    IN  [k \in 1..Len(batch) |->
            [duration |-> batch[k].duration,
             target_duration |-> batch[k].target_duration,
             generated_audio |-> batch[k].generated_audio,
             speed |-> speed(k)]]

\* s.speed > max_speed
TooFast(s) == s.speed.num * 10 > MAX_SPEED_TENTHS * s.speed.den

\* change_speed_ffmpeg raises ValueError unless 0.5 <= speed <= 100
SpeedAccepted(speed) ==
    /\ speed.num > 0
    /\ 2 * speed.num >= speed.den
    /\ speed.num <= 100 * speed.den

\* change_speed_ffmpeg: ValueError for a speed outside its range
change_speed_ffmpeg(speed) ==
    IF SpeedAccepted(speed) THEN "changed" ELSE "ValueError"

\* apply_speed_and_silence, step 2 (lines 62-84): the speed change is tried
\* for a sentence with audio, speed != 1.0 and speed > 0; an exception of
\* change_speed_ffmpeg is caught on the spot and logged, and the sentence
\* keeps its audio
TimeStretch(sentence) ==
    IF ~(/\ sentence.generated_audio
         /\ sentence.speed.num # sentence.speed.den
         /\ sentence.speed.num > 0)
    THEN "skipped"
    ELSE IF change_speed_ffmpeg(sentence.speed) = "ValueError"
         THEN "logged"
         ELSE change_speed_ffmpeg(sentence.speed)

\* apply_speed_and_silence: the speed field stays as align_batch set it
apply_speed_and_silence(batch) ==
    [k \in 1..Len(batch) |->
        [duration |-> batch[k].duration,
         target_duration |-> batch[k].target_duration,
         generated_audio |-> batch[k].generated_audio,
         speed |-> batch[k].speed,
         time_stretch |-> TimeStretch(batch[k]),
         speed_applied |-> TimeStretch(batch[k]) = "changed"]]

\* DurationAligner._process_fast_sentences, with the calls it makes in
\* order.  refined.simplified is false when _simplify_sentences returned
\* nothing, refined.ok is false when _regenerate_audio returned nothing or
\* a list of another length; else refined.duration is the regenerated
\* duration per fast sentence (0: no audio, the sentence is not replaced).
\* The variant below runs the retry a second time while a sentence is
\* still too fast.
_process_fast_sentences_UntilSlow(aligned_sentences, fast_indices, refined) ==
    IF ~refined.simplified
    THEN [calls |-> <<"simplify_sentences", "apply_speed_and_silence">>,
          sentences |-> apply_speed_and_silence(aligned_sentences)]
    ELSE IF ~refined.ok
    THEN [calls |-> <<"simplify_sentences", "generate_audio_stream",
                      "apply_speed_and_silence">>,
          sentences |-> apply_speed_and_silence(aligned_sentences)]
    ELSE LET result_sentences ==
                 [k \in 1..Len(aligned_sentences) |->
                     IF k \in fast_indices /\ refined.duration[k] > 0
                     THEN [duration |-> refined.duration[k],
                           target_duration |->
                               aligned_sentences[k].target_duration,
                           generated_audio |-> TRUE]
                     ELSE aligned_sentences[k]]
             final_aligned == align_batch(result_sentences)
             round == <<"simplify_sentences", "generate_audio_stream",
                        "align_batch">>
         IN  [calls |-> IF \E k \in 1..Len(final_aligned) :
                               TooFast(final_aligned[k])
                        THEN round \o round \o <<"apply_speed_and_silence">>
                        ELSE round \o <<"apply_speed_and_silence">>,
              sentences |-> apply_speed_and_silence(final_aligned)]
_process_fast_sentences(aligned_sentences, fast_indices, refined) ==
    IF ~refined.simplified
    THEN [calls |-> <<"simplify_sentences", "apply_speed_and_silence">>,
          sentences |-> apply_speed_and_silence(aligned_sentences)]
    ELSE IF ~refined.ok
    THEN [calls |-> <<"simplify_sentences", "generate_audio_stream",
                      "apply_speed_and_silence">>,
          sentences |-> apply_speed_and_silence(aligned_sentences)]
    ELSE LET result_sentences ==
                 [k \in 1..Len(aligned_sentences) |->
                     IF k \in fast_indices /\ refined.duration[k] > 0
                     THEN [duration |-> refined.duration[k],
                           target_duration |->
                               aligned_sentences[k].target_duration,
                           generated_audio |-> TRUE]
                     ELSE aligned_sentences[k]]
             final_aligned == align_batch(result_sentences)
         IN  [calls |-> <<"simplify_sentences", "generate_audio_stream",
                          "align_batch", "apply_speed_and_silence">>,
              sentences |-> apply_speed_and_silence(final_aligned)]

\* DurationAligner.__call__ on a non-empty batch: what it returns, and the
\* calls it has made
DurationAligner(batch, refined) ==
    LET aligned_sentences == align_batch(batch)
        fast_indices == {k \in 1..Len(batch) : TooFast(aligned_sentences[k])}
        processed == _process_fast_sentences(aligned_sentences, fast_indices,
                                             refined)
        returned == IF fast_indices # {}
                    THEN processed.sentences
                    ELSE apply_speed_and_silence(aligned_sentences)
    IN  [fn |-> "DurationAligner",
         simplified |-> fast_indices # {},
         calls |-> IF fast_indices # {}
                   THEN <<"align_batch">> \o processed.calls
                   ELSE <<"align_batch", "apply_speed_and_silence">>,
         sentences |-> returned,
         \* an exception leaves __call__ only if a step let it through
         raised |-> \E k \in 1..Len(returned) :
                       returned[k].time_stretch = "ValueError"]

\* ---- AudioSegmenter; times are integers in ms
AUDIO_CLIP_GOAL_DURATION_MS == 12000
AUDIO_CLIP_MIN_DURATION_MS == 1000
AUDIO_CLIP_PADDING_MS == 200
AUDIO_CLIP_ALLOW_CROSS_NON_SPEECH == FALSE

\* the string "<m>m<s>s<ms>ms" as its three numbers
_ms_to_time_str(ms) ==
    [m |-> ms \div 60000, s |-> (ms % 60000) \div 1000, ms |-> ms % 1000]
_time_str_to_ms(time_str) ==
    time_str.m * 60 * 1000 + time_str.s * 1000 + time_str.ms

_sentences_to_transcript_data(input) ==
    [k \in 1..Len(input) |->
        [sequence |-> input[k].sequence,
         start |-> _ms_to_time_str(input[k].start_ms),
         end |-> _ms_to_time_str(input[k].end_ms),
         speaker |-> input[k].speaker]]

\* lines 73-89: the padded segment of every item; all items are speech
PaddedItems(transcript_data) ==
    LET item(k) ==
            LET start_ms == _time_str_to_ms(transcript_data[k].start)
                end_ms == _time_str_to_ms(transcript_data[k].end)
                padded_start == Max(0, start_ms - AUDIO_CLIP_PADDING_MS)
                padded_end == end_ms + AUDIO_CLIP_PADDING_MS
            IN  [sequence |-> transcript_data[k].sequence,
                 speaker |-> transcript_data[k].speaker,
                 original_segment |-> <<start_ms, end_ms>>,
                 padded_segment |-> <<padded_start, padded_end>>,
                 segment_duration |-> padded_end - padded_start]
    IN  SelectSeq([k \in 1..Len(transcript_data) |-> item(k)],
                  LAMBDA it : it.segment_duration > 0)

\* lines 95-121: blocks of consecutive sentences of one speaker
RECURSIVE LargeBlocks(_, _, _, _)
LargeBlocks(items, i, current_block, large_blocks) ==
    IF i > Len(items) THEN Append(large_blocks, current_block)
    ELSE LET current_sentence == items[i]
             last_sentence == current_block[Len(current_block)]
         IN  IF /\ current_sentence.speaker = last_sentence.speaker
                /\ \/ AUDIO_CLIP_ALLOW_CROSS_NON_SPEECH
                   \/ current_sentence.sequence = last_sentence.sequence + 1
             THEN LargeBlocks(items, i + 1,
                              Append(current_block, current_sentence),
                              large_blocks)
             ELSE LargeBlocks(items, i + 1, <<current_sentence>>,
                              Append(large_blocks, current_block))

\* lines 136-157: the sentences of a block up to the goal duration
RECURSIVE Truncated(_, _, _, _)
Truncated(block, i, accumulated_duration, sentences_to_include) ==
    IF i > Len(block) THEN sentences_to_include
    ELSE IF accumulated_duration + block[i].segment_duration
               <= AUDIO_CLIP_GOAL_DURATION_MS
    THEN Truncated(block, i + 1,
                   accumulated_duration + block[i].segment_duration,
                   Append(sentences_to_include, block[i]))
    ELSE LET remaining_duration ==
                 AUDIO_CLIP_GOAL_DURATION_MS - accumulated_duration
             start_time == block[i].padded_segment[1]
         IN  IF remaining_duration > 0
             THEN Append(sentences_to_include,
                         [block[i] EXCEPT
                             !.segment_duration = remaining_duration,
                             !.padded_segment =
                                 <<start_time, start_time + remaining_duration>>])
             ELSE sentences_to_include

\* the stable sort of the segments by their start
RECURSIVE SortByStart(_)
SortByStart(segments) ==
    IF segments = <<>> THEN <<>>
    ELSE LET least == CHOOSE k \in 1..Len(segments) :
                          \A j \in 1..Len(segments) :
                              \/ segments[k][1] < segments[j][1]
                              \/ segments[k][1] = segments[j][1] /\ k <= j
         IN  <<segments[least]>>
             \o SortByStart([j \in 1..(Len(segments) - 1) |->
                                IF j < least THEN segments[j]
                                ELSE segments[j + 1]])

RECURSIVE MergeFrom(_, _, _)
MergeFrom(segments, i, merged) ==
    IF i > Len(segments) THEN merged
    ELSE LET current == segments[i]
             last == merged[Len(merged)]
         IN  IF current[1] <= last[2]
             THEN MergeFrom(segments, i + 1,
                            [merged EXCEPT ![Len(merged)] =
                                <<last[1], Max(last[2], current[2])>>])
             ELSE MergeFrom(segments, i + 1, Append(merged, current))

_merge_overlapping_segments(block) ==
    IF block = <<>> THEN <<>>
    ELSE LET segments == SortByStart([k \in 1..Len(block) |->
                                         block[k].padded_segment])
         IN  MergeFrom(segments, 2, <<segments[1]>>)

SegmentsLength(segments) ==
    SumSeq([k \in 1..Len(segments) |-> segments[k][2] - segments[k][1]])

\* line 128: block_total_duration
BlockTotal(block) ==
    SumSeq([k \in 1..Len(block) |-> block[k].segment_duration])

\* lines 131-172: the clip of a block that is long enough
ClipOf(block) ==
    LET final_sentences ==
            IF BlockTotal(block) > AUDIO_CLIP_GOAL_DURATION_MS
            THEN Truncated(block, 1, 0, <<>>)
            ELSE block
        merged_segments == _merge_overlapping_segments(final_sentences)
    IN  [speaker |-> block[1].speaker,
         total_duration_ms |-> SegmentsLength(merged_segments),
         segments_to_concatenate |-> merged_segments,
         sentences |-> [k \in 1..Len(final_sentences) |->
                           final_sentences[k].sequence]]

_create_audio_clips(transcript_data) ==
    LET items == PaddedItems(transcript_data) IN
    IF items = <<>> THEN <<>>
    ELSE LET large_blocks == LargeBlocks(items, 2, <<items[1]>>, <<>>)
             long_enough ==
                 SelectSeq(large_blocks,
                           LAMBDA b : BlockTotal(b) >= AUDIO_CLIP_MIN_DURATION_MS)
         IN  [k \in 1..Len(long_enough) |-> ClipOf(long_enough[k])]

\* process_single_clip, lines 252-271: the length of the audio cut for a
\* clip from an audio of audio_len ms; segments are cut off at the end of
\* the audio and empty ones are left out
CombinedAudio(clip, audio_len) ==
    SumSeq([k \in 1..Len(clip.segments_to_concatenate) |->
               LET start_ms == Max(0, clip.segments_to_concatenate[k][1])
                   end_ms == Min(audio_len, clip.segments_to_concatenate[k][2])
               IN  IF start_ms >= end_ms THEN 0 ELSE end_ms - start_ms])

\* the clips that are saved: an empty one is skipped
_extract_and_save_audio_clips(clips_library, audio_len) ==
    LET cut == [k \in 1..Len(clips_library) |->
                   [speaker |-> clips_library[k].speaker,
                    sentences |-> clips_library[k].sentences,
                    total_duration_ms |-> clips_library[k].total_duration_ms,
                    audio_ms |-> CombinedAudio(clips_library[k], audio_len)]]
    IN  SelectSeq(cut, LAMBDA c : c.audio_ms > 0)

\* AudioSegmenter.segment_audio_for_sentences
segment_audio_for_sentences(input, audio_len) ==
    [fn |-> "AudioSegmenter",
     clips |-> _extract_and_save_audio_clips(
                  _create_audio_clips(_sentences_to_transcript_data(input)),
                  audio_len)]

\* ---- the calls
StartTimes == {0, 1000}
EndTimes == {3000, 4500}
GivenTargets == {NoDuration, 2000}
GivenDurations == {0, 2100}

\* a sentence of the batch the aligner gets: duration 0 and no audio when
\* its synthesis failed
AlignDurations == {0, 19, 21, 40, 2100}
AlignTargets == {20}
RegeneratedDurations == {0, 20}
AlignBatches ==
    UNION {[1..n -> [duration : AlignDurations,
                     target_duration : AlignTargets]] : n \in 1..MaxAlignBatch}
WithAudio(batch) ==
    [k \in 1..Len(batch) |->
        [duration |-> batch[k].duration,
         target_duration |-> batch[k].target_duration,
         generated_audio |-> batch[k].duration > 0]]

\* the sentences the slicer gets, in time order: each with its length, the
\* pause before it and its speaker
SentenceLengths == {300, 700, 6500}
Pauses == {0, 1000}
Speakers == {"A", "B"}
SlicerInputs ==
    UNION {[1..n -> [length : SentenceLengths, pause : Pauses,
                     speaker : Speakers]] : n \in 1..MaxClipSentences}
RECURSIVE StartOf(_, _)
StartOf(shape, k) ==
    IF k = 1 THEN shape[1].pause
    ELSE StartOf(shape, k - 1) + shape[k - 1].length + shape[k].pause
SentencesOf(shape) ==
    [k \in 1..Len(shape) |->
        [sequence |-> k, speaker |-> shape[k].speaker,
         start_ms |-> StartOf(shape, k),
         end_ms |-> StartOf(shape, k) + shape[k].length]]

SentenceCall ==
    /\ unitPc = "idle"
    /\ \E start_ms \in StartTimes, end_ms \in EndTimes,
          target_duration \in GivenTargets, duration \in GivenDurations :
        /\ unitCall' = [fn |-> "Sentence", start_ms |-> start_ms,
                        end_ms |-> end_ms,
                        target_duration |-> target_duration,
                        duration |-> duration]
        /\ unitResult' = __post_init__(start_ms, end_ms, target_duration,
                                       duration)
    /\ unitPc' = "done"
    /\ UNCHANGED <<pipelineVars, managerVars, mixerVars, synthVars>>

AlignerCall ==
    /\ unitPc = "idle"
    /\ \E shape \in AlignBatches, simplified \in BOOLEAN, ok \in BOOLEAN :
       \E regenerated \in [1..Len(shape) -> RegeneratedDurations] :
        LET batch == WithAudio(shape)
            refined == [simplified |-> simplified, ok |-> ok,
                        duration |-> regenerated]
        IN  /\ unitCall' = [fn |-> "DurationAligner", sentences |-> batch,
                            refined |-> refined]
            /\ unitResult' = DurationAligner(batch, refined)
    /\ unitPc' = "done"
    /\ UNCHANGED <<pipelineVars, managerVars, mixerVars, synthVars>>

SlicerCall ==
    /\ unitPc = "idle"
    /\ \E shape \in SlicerInputs, tail \in Pauses :
        LET input == SentencesOf(shape)
            audio_len == input[Len(input)].end_ms + tail
        IN  /\ unitCall' = [fn |-> "AudioSegmenter", sentences |-> input,
                            audio_len |-> audio_len]
            /\ unitResult' = segment_audio_for_sentences(input, audio_len)
    /\ unitPc' = "done"
    /\ UNCHANGED <<pipelineVars, managerVars, mixerVars, synthVars>>

UnitReturn ==
    /\ unitPc = "done"
    /\ unitPc' = "idle"
    /\ unitCall' = NoCall
    /\ unitResult' = NoReturn
    /\ UNCHANGED <<pipelineVars, managerVars, mixerVars, synthVars>>

UnitInit == Init /\ OnePipeline

UnitNext == SentenceCall \/ AlignerCall \/ SlicerCall \/ UnitReturn

UnitSpec == UnitInit /\ [][UnitNext]_vars

\* ----------------------------------------------------------------- claims
Terminal == {"completed", "error"}
Last(s) == s[Len(s)]
Abs(x) == IF x < 0 THEN 0 - x ELSE x
Returned == pc = "done"

\* the playlist versions this run has written to the object store
RunVersions ==
    SelectSeq(r2Playlist, LAMBDA v : v.origin # "earlier_run")

\* the .ts objects an earlier run left in the object store
EarlierTs ==
    IF r2Playlist # <<>> /\ r2Playlist[1].origin = "earlier_run"
    THEN {FileName(r2Playlist[1].segments[k].uri) :
             k \in 1..Len(r2Playlist[1].segments)}
    ELSE {}

\* sentences, audio and video resolve and nothing fails
ScenarioA ==
    /\ sentences >= 1
    /\ faults = 0
    /\ kvFault = "none"
    /\ audioPath
    /\ \A i \in 1..sentences : synth[i] # NoAudio

\* C1: a run in which sentences, audio and video resolve and no component
\* fails ends with the task completed and with at least one .ts segment in
\* the playlist of the object store.
C1_CompletedWithSegment ==
    (Returned /\ ScenarioA) =>
        /\ taskStatus = "completed"
        /\ RunVersions # <<>>
        /\ Last(RunVersions).segments # <<>>

SetProcessing ==
    [writer |-> OrchestratorWriter, status |-> "processing", applied |-> TRUE]
        \in statusWrites
OrchWritesApplied ==
    \A w \in statusWrites : w.writer = OrchestratorWriter => w.applied

\* C2: a run that has set the task to processing returns and leaves the
\* task completed or error, whichever worker fails: with the store taking
\* every write of the orchestrator, the pipeline can come to rest only
\* after the run has returned and with the task in a terminal state.
C2_ReturnsTerminal ==
    (SetProcessing /\ OrchWritesApplied /\ ~ENABLED Next) =>
        (Returned /\ taskStatus \in Terminal)

KvReadFailed == kvFault \in {"task_row", "segments", "media_paths"}

\* what the orchestrator's last write was, and the row when the store took it
EndsInError ==
    /\ orchWrite.status = "error"
    /\ orchWrite.message # NoMsg
    /\ orchWrite.applied => (taskStatus = "error" /\ errorMessage # NoMsg)

\* C4: when the read of the task's segments or of its media paths fails,
\* the run ends by writing status error with a non-empty error_message, and
\* that is what the task row holds once the store has taken the write.
C4_KvFailureEndsInError == (KvReadFailed /\ Returned) => EndsInError

C4_Witness ==
    /\ KvReadFailed
    /\ Returned
    /\ taskStatus = "error"
    /\ errorMessage # NoMsg

\* C5: when the video download fails, the HLS publisher is never
\* initialised for the task, no .ts file and no playlist is uploaded, and
\* the run ends by writing status error with a non-empty message.
C5_VideoFailureBeforeHls ==
    videoDl = "failed" =>
        /\ coPc = "none"
        /\ ~task_managers
        /\ r2Ts = EarlierTs /\ RunVersions = <<>>
        /\ Returned => EndsInError

C5_Witness ==
    /\ videoDl = "failed"
    /\ videoPc = "raised"
    /\ HasAttr(cfgQueue.tts)
    /\ Returned
    /\ taskStatus = "error"
    /\ errorMessage # NoMsg

\* C6: every write of the task's status comes from the orchestrator.
C6_OnlyOrchestratorWrites ==
    \A w \in statusWrites : w.writer = OrchestratorWriter

\* the capacity a queue was built with; no queue exists without the config
Capacity(maxsize) == IF HasAttr(maxsize) THEN maxsize ELSE 0

WithinCapacity ==
    /\ Len(tts_queue) <= Capacity(cfgQueue.tts)
    /\ Len(aligned_queue) <= Capacity(cfgQueue.aligned)

\* a producer with an item to put on Q1 makes no step while Q1 stays full
ProducerWaits ==
    (/\ ttsPc \in {"produce", "put_error"}
     /\ Len(tts_queue) = cfgQueue.tts
     /\ Len(tts_queue') >= Len(tts_queue))
        => (ttsPc' = ttsPc /\ tts_queue' = tts_queue /\ produced' = produced)

\* an aligner with an item to put on Q2 makes no step while Q2 stays full
AlignerWaits ==
    (/\ alPc \in {"put", "put_last"}
     /\ Len(aligned_queue) = cfgQueue.aligned
     /\ Len(aligned_queue') >= Len(aligned_queue))
        => (alPc' = alPc /\ aligned_queue' = aligned_queue /\ alHeld' = alHeld)

\* C7: Q1 never holds more than TTS_QUEUE_SIZE items and Q2 never more
\* than ALIGNED_QUEUE_SIZE; while Q1 is full the TTS producer waits, and
\* while Q2 is full the aligner waits, until an item is removed.
C7_QueuesBounded == [][WithinCapacity' /\ ProducerWaits /\ AlignerWaits]_vars

C7_Witness ==
    /\ ttsPc = "produce" /\ Len(tts_queue) = cfgQueue.tts
    /\ alPc = "put" /\ Len(aligned_queue) = cfgQueue.aligned

\* the batch_counter values of the batches a queue holds, oldest first
Counters(q) ==
    LET batches == SelectSeq(q, LAMBDA item : item.type \in
                                         {"batch", "aligned_batch"})
    IN [k \in 1..Len(batches) |-> batches[k].batch_counter]
HistoryCounters(h) == [k \in 1..Len(h) |-> h[k].batch_counter]
StrictlyIncreasing(s) == \A k \in 1..(Len(s) - 1) : s[k] < s[k + 1]
Ids(batch) == [k \in 1..Len(batch) |-> batch[k].id]

\* the sentences of batch c, in the order the producer emitted them
ProducedIds(c) ==
    LET j == CHOOSE j \in 1..Len(produced) : produced[j].batch_counter = c
    IN produced[j].ids
WasProduced(c) == \E j \in 1..Len(produced) : produced[j].batch_counter = c

\* C8: batch_counter is strictly increasing along Q1, along Q2 and in the
\* order the compose worker receives the batches, and every batch reaches
\* Q2 and compose with its sentences in the order the producer emitted them.
C8_FifoOrder ==
    /\ StrictlyIncreasing(HistoryCounters(produced))
    /\ StrictlyIncreasing(Counters(tts_queue))
    /\ StrictlyIncreasing(Counters(aligned_queue))
    /\ StrictlyIncreasing(HistoryCounters(composed))
    /\ \A k \in 1..Len(composed) :
          /\ WasProduced(composed[k].batch_counter)
          /\ composed[k].ids = ProducedIds(composed[k].batch_counter)
    /\ \A k \in 1..Len(aligned_queue) :
          aligned_queue[k].type = "aligned_batch" =>
              /\ WasProduced(aligned_queue[k].batch_counter)
              /\ Ids(aligned_queue[k].data)
                    = ProducedIds(aligned_queue[k].batch_counter)
    /\ (composed # <<>> /\ aligned_queue # <<>>
        /\ Counters(aligned_queue) # <<>>)
          => Last(composed).batch_counter < Counters(aligned_queue)[1]

C8_Witness ==
    /\ Len(composed) >= 2
    /\ Len(composed[1].ids) = TTS_BATCH_SIZE

\* one millisecond in the unit of the time stamps
ToleranceMs == TARGET_SR

\* C9: every sentence the stamper emits starts where the sentence emitted
\* before it ends, within 1 ms, inside a batch and from one emitted batch
\* to the next.
C9_Continuity ==
    \A k \in 1..(Len(stamped) - 1) :
        Abs(stamped[k + 1].adjusted_start
            - (stamped[k].adjusted_start + stamped[k].adjusted_duration))
            <= ToleranceMs

C9_Witness ==
    /\ Len(stamped) > TTS_BATCH_SIZE
    /\ stamped[TTS_BATCH_SIZE + 1].adjusted_start
          = stamped[1].adjusted_duration + stamped[2].adjusted_duration
            + stamped[3].adjusted_duration
    /\ stamped[TTS_BATCH_SIZE + 1].adjusted_start > 0

\* the playlist versions the uploads asked for by add_segment have written
AddSegmentVersions ==
    SelectSeq(r2Playlist, LAMBDA v : v.origin = "add_segment")

EarlierSegments ==
    IF r2Playlist # <<>> /\ r2Playlist[1].origin = "earlier_run"
    THEN r2Playlist[1].segments
    ELSE <<>>

Uris(segments) == {segments[k].uri : k \in 1..Len(segments)}

FinalizeMergeReturned == mergeResult # NoResult

\* the upload that finalize_playlist asked for was carried out
FinalUploadDone ==
    \E k \in 1..Len(r2Playlist) : r2Playlist[k].origin = "finalize_playlist"

WorkerTakesSegments ==
    /\ upWorker = "idle" /\ queueExists /\ upload_queue # <<>>
    /\ Head(upload_queue).type = "segments"
    /\ upload_queue' = Tail(upload_queue)

\* C15: a batch of .ts uploads counts as successful as soon as one of its
\* files was uploaded; whatever the outcome, the worker goes on with the
\* next item and the run's result is untouched; and a run whose only fault
\* was a failed .ts upload ends by writing completed.
C15_UploadFailureTolerated ==
    [][/\ WorkerTakesSegments =>
             LET files == Head(upload_queue).files
                 failed == tsFailed' \ tsFailed
             IN /\ (files \ failed # {}) =>
                      upStats'.upload_count = upStats.upload_count + 1
                /\ (files \ failed = {}) =>
                      upStats'.failed_count = upStats.failed_count + 1
                /\ upWorker' = "idle"
                /\ UNCHANGED <<pc, result, coPc, coResult, taskStatus>>
       /\ (Returned /\ tsFailed # {} /\ faults = 1)' =>
             (orchWrite.status = "completed")'
      ]_vars

C15_Witness ==
    /\ Returned
    /\ tsFailed # {}
    /\ upStats.upload_count >= 2
    /\ upStats.failed_count = 0
    /\ orchWrite.status = "completed"
    /\ taskStatus = "completed"

\* C16: when run_complete_tts_pipeline has returned, on success or on
\* failure, the scratch directory of the task no longer exists.
C16_ScratchDeleted == Returned => ~scratch

\* C17: a status update of the orchestrator that failed was attempted
\* MAX_ATTEMPTS times in all, with delays of RETRY_DELAY and then
\* RETRY_DELAY * RETRY_BACKOFF between the attempts, before it was given up.
C17_FailedUpdateRetried ==
    (orchWrite.status # None /\ ~orchWrite.applied) =>
        /\ orchWrite.attempts = MAX_ATTEMPTS
        /\ orchWrite.delays = <<RETRY_DELAY, RETRY_DELAY * RETRY_BACKOFF>>

\* C19: when the vocal separation failed or was not available, the audio
\* chain returns the original audio as vocals_path and no instrumental
\* path, and the slicer has run on that audio.
C19_SeparationFallback ==
    audioChain.separation \in {"separation_failed", "separation_unavailable"}
        => /\ audioChain.vocals_path = "original_audio.wav"
           /\ audioChain.instrumental_path = None
           /\ audioChain.sliced

\* the producer puts a batch on the TTS queue
EmitsBatch ==
    /\ ttsPc = "produce"
    /\ Len(tts_queue') = Len(tts_queue) + 1
    /\ Last(tts_queue').type = "batch"

\* some sentence whose synthesis failed has been emitted
FailedSynthesisEmitted ==
    \E j \in 1..Len(produced) : \E k \in 1..Len(produced[j].ids) :
        synth[produced[j].ids[k]] = NoAudio

\* C20: a sentence whose synthesis failed is emitted in its batch at its
\* position with no audio and duration 0 and the producer goes on; the
\* stamper gives it duration 0, so that the next sentence starts where it
\* starts; and a run in which nothing else failed and a later sentence of
\* the batch has audio ends by writing completed.
C20_FailedSynthesisTolerated ==
    [][/\ EmitsBatch =>
             LET batch == Last(tts_queue').data IN
             /\ \A k \in 1..Len(batch) :
                   /\ batch[k].id = ttsPos + k - 1
                   /\ synth[batch[k].id] = NoAudio =>
                         /\ batch[k].generated_audio = NoAudio
                         /\ batch[k].duration = 0
             /\ ttsPos' = ttsPos + Len(batch)
             /\ ttsPc' = "produce"
       /\ (\A k \in 1..Len(stamped) :
              synth[stamped[k].id] = NoAudio =>
                 /\ stamped[k].generated_audio = NoAudio
                 /\ stamped[k].adjusted_duration = 0
                 /\ k < Len(stamped) =>
                       stamped[k + 1].adjusted_start
                          = stamped[k].adjusted_start)'
       /\ (Returned /\ FailedSynthesisEmitted /\ faults = 0
           /\ sentences >= 2)' => (orchWrite.status = "completed")'
      ]_vars

C20_Witness ==
    /\ Returned
    /\ FailedSynthesisEmitted
    /\ sentences > TTS_BATCH_SIZE
    /\ Len(stamped) = sentences
    /\ stamped[1].adjusted_duration = 0
    /\ stamped[2].adjusted_start = stamped[1].adjusted_start
    /\ orchWrite.status = "completed"

\* uploads to the object store that are in progress: the workers inside
\* the semaphore and the callers uploading by themselves
WorkerUploads == {t \in Tasks : upload_workers[t] = "uploading"}
CallerUploads ==
    {c \in Callers :
        callPc[c] \in {"fallback_segments", "fallback_playlist",
                       "final_upload"}}

\* C13: at any time at most SEMAPHORE_PERMITS uploads are in progress in
\* the process, counting the upload workers, the synchronous fallbacks and
\* the final playlist uploads of all tasks.
C13_UploadsCapped ==
    Cardinality(WorkerUploads) + Cardinality(CallerUploads)
        <= SEMAPHORE_PERMITS

\* the callers of task t that are inside the critical section of
\* add_segment or finalize_playlist
InCriticalSection(t) ==
    {c \in Callers :
        /\ TaskOf(c) = t
        /\ callPc[c] \in {"hls_segment", "fallback_segments", "queued",
                          "fallback_playlist", "add_return", "final_upload"}}

C18_BufferPerTask ==
    \A t \in Tasks :
        /\ heard[t] \subseteq {t}
        /\ mixPc[t] = "create_mixed_segment" =>
              \A k \in 1..Len(mixLocal[t].full_audio_buffer) :
                  mixLocal[t].full_audio_buffer[k] = t

\* the sentences of the batches put on Q1 so far, in the order of the puts
RECURSIVE EmittedIds(_)
EmittedIds(j) ==
    IF j = 0 THEN <<>> ELSE EmittedIds(j - 1) \o produced[j].ids

\* C21: every batch put on Q1 but the last has exactly TTS_BATCH_SIZE
\* sentences, a shorter batch is the flush after the last sentence, and
\* the batches put on Q1, concatenated, are the sentences 1, 2, ... in
\* sequence order without gap or repetition, all of them once the producer
\* has sent its complete terminator.
C21_BatchesPartitionInput ==
    LET ids == EmittedIds(Len(produced)) IN
    /\ ids = [k \in 1..Len(ids) |-> k]
    /\ Len(ids) = ttsPos - 1
    /\ Len(ids) <= sentences
    /\ \A j \in 1..Len(produced) :
          /\ Len(produced[j].ids) \in 1..TTS_BATCH_SIZE
          /\ Len(produced[j].ids) < TTS_BATCH_SIZE =>
                (j = Len(produced) /\ Len(ids) = sentences)
    /\ ttsPc = "done" => Len(ids) = sentences

C21_Witness ==
    /\ ttsPc = "done"
    /\ sentences > 2 * TTS_BATCH_SIZE
    /\ Len(produced) = 3
    /\ Len(produced[1].ids) = TTS_BATCH_SIZE
    /\ Len(produced[3].ids) < TTS_BATCH_SIZE

\* C24: a Sentence created without a target duration gets target_duration =
\* end_ms - start_ms as a number of milliseconds (start 1000, end 3000
\* gives 2000)
C24_TargetDurationInMs ==
    (unitPc = "done" /\ unitCall.fn = "Sentence"
        /\ unitCall.target_duration = NoDuration)
    => unitResult.target_duration.num
           = (unitCall.end_ms - unitCall.start_ms)
                 * unitResult.target_duration.den

\* C22: after the Aligner no sentence has a speed outside [0.5, 100], and a
\* batch that did not go through the simplification has no speed above 1.2
C22_SpeedBounded ==
    (unitPc = "done" /\ unitCall.fn = "DurationAligner")
    => \A k \in 1..Len(unitResult.sentences) :
          LET speed == unitResult.sentences[k].speed IN
          /\ 2 * speed.num >= speed.den
          /\ speed.num <= 100 * speed.den
          /\ ~unitResult.simplified
                => speed.num * 10 <= MAX_SPEED_TENTHS * speed.den

\* C23: every clip the slicer saves is between AUDIO_CLIP_MIN_DURATION_MS
\* and AUDIO_CLIP_GOAL_DURATION_MS long and made of sentences of one speaker
C23_ClipBounds ==
    (unitPc = "done" /\ unitCall.fn = "AudioSegmenter")
    => \A k \in 1..Len(unitResult.clips) :
          LET clip == unitResult.clips[k] IN
          /\ clip.audio_ms >= AUDIO_CLIP_MIN_DURATION_MS
          /\ clip.audio_ms <= AUDIO_CLIP_GOAL_DURATION_MS
          /\ \A j \in 1..Len(clip.sentences) :
                unitCall.sentences[clip.sentences[j]].speaker = clip.speaker
\* C25: once the task's status is completed or error, no later write changes
\* it
C25_TerminalAbsorbing ==
    [][(taskStatus \in Terminal) => (taskStatus' = taskStatus)]_vars
\* the last item of a queue is an error terminator
ErrorOn(q) == q # <<>> /\ Last(q).type = "error"

\* the failure of the TTS producer is on Q1 until the aligner has taken it
ProducerErrorKept ==
    ttsPc = "raised" => (ErrorOn(tts_queue) \/ alHeld.type = "error")

\* the error the aligner ended with is on Q2 until the compose worker has
\* taken it and returned it
AlignerErrorKept ==
    (alPc = "done" /\ alHeld.type = "error")
    => \/ ErrorOn(aligned_queue)
       \/ coPc = "done" /\ coResult = Error(alHeld.message)

MixDrops ==
    /\ coPc = "get" /\ coPc' = "get"
    /\ aligned_queue # <<>>
    /\ aligned_queue' = Tail(aligned_queue)
    /\ Head(aligned_queue).type = "aligned_batch"

\* C27: a batch whose mixing, video cut or mux gives nothing is dropped and
\* the compose worker goes on with the next item; the audio clock is not
\* advanced by the dropped batch, so the sentence stamped next starts where
\* the dropped batch started
C27_DropLeavesClock ==
    [][MixDrops =>
         LET batch == Head(aligned_queue).data
             last == CHOOSE k \in 1..Len(stamped) :
                         stamped[k].id = batch[Len(batch)].id
         IN  /\ playlist' = playlist
             /\ processed_segments' = processed_segments
             /\ IF last < Len(stamped)
                THEN stamped[last + 1].adjusted_start
                         = batch[1].adjusted_start
                ELSE current_time_ms = batch[1].adjusted_start
      ]_vars
\* C28: finalize_merge marks the playlist ended and uploads the final
\* playlist only after the wait for the upload queue and the stop of the
\* upload worker
C28_EndlistAfterWorkerStopped ==
    [][(\/ ~is_endlist /\ is_endlist'
        \/ /\ Len(r2Playlist') > Len(r2Playlist)
           /\ Last(r2Playlist').origin = "finalize_playlist")
       => (~queueExists /\ upWorker \in {"stopped", "cancelled"})
      ]_vars
\* C29: until the video preparation worker has completed, the compose
\* worker does not exist: the HLS publisher is not initialised for the task
\* and no item is removed from Q2
C29_ComposeAfterVideo ==
    [][/\ (coPc' # "none" \/ task_managers' \/ composed' # <<>>)
            => videoPc' = "ok"
       /\ (aligned_queue # <<>> /\ aligned_queue' = Tail(aligned_queue))
            => videoPc = "ok"
      ]_vars

\* the aligner has filled Q2 and waits while the video is still being
\* prepared, and the compose worker has not started
C29_Witness ==
    /\ videoPc = "waiting"
    /\ aligned_queue # <<>>
    /\ alPc \in {"put", "put_last"}
    /\ coPc = "none"
\* the .ts names listed in a playlist, in order
TsNames(segments) ==
    LET ts == SelectSeq(segments, LAMBDA seg : seg.uri # NoUri)
    IN  [k \in 1..Len(ts) |-> FileName(ts[k].uri)]

Distinct(seq) ==
    \A i, j \in 1..Len(seq) : seq[i] = seq[j] => i = j

\* C30: within a task a batch is appended to the playlist as at most one
\* MP4, no .ts name is in the playlist twice, and add_segment produces no
\* .ts name that the task has produced before
C30_SegmentsAtMostOnce ==
    [][/\ Distinct(processed_segments')
       /\ Distinct(TsNames(playlist'))
       /\ processed_segments' # processed_segments
            => \A k \in (Len(TsNames(playlist)) + 1)
                            ..Len(TsNames(playlist')) :
                  TsNames(playlist')[k] \notin EarlierTs
      ]_vars

\* the positions at which a worker task of the run has ended (or was never
\* created)
ProducerEnded == ttsPc \in {"none", "done", "raised"}
AlignerEnded == alPc \in {"none", "done"}
ComposeEnded == coPc \in {"none", "done", "raised"}

\* C31: when run_complete_tts_pipeline has returned, none of the task's
\* worker tasks (TTS producer, aligner, compose) is still running or
\* suspended in a put on a full queue.
C31_NoWorkerLeftBehind ==
    Returned => (ProducerEnded /\ AlignerEnded /\ ComposeEnded)


\* the terminators of the two queues, and how many of them a queue was given
Terminators == {CompleteItem.type, ErrorItem(NoMsg).type}
TerminatorsPut(h) == Cardinality({k \in 1..Len(h) : h[k] \in Terminators})
NothingAfterTerminator(h) ==
    \A k \in 1..Len(h) : h[k] \in Terminators => k = Len(h)
QueuesBuilt == ttsPc # "none"

\* at no time has a queue been given a second terminator or an item after
\* its terminator
AtMostOneTerminator ==
    \A q \in {"tts", "aligned"} :
        TerminatorsPut(puts[q]) <= 1 /\ NothingAfterTerminator(puts[q])

\* C32: in a run that built the two queues, exactly one terminator
\* (complete or error) is put on Q1 and exactly one on Q2, and no batch is
\* put on a queue after its terminator: once nothing of the run can move
\* any more, each queue has been given one terminator, as its last item.
C32_OneTerminatorEach ==
    (QueuesBuilt /\ ~ENABLED Next) =>
        \A q \in {"tts", "aligned"} :
            TerminatorsPut(puts[q]) = 1 /\ NothingAfterTerminator(puts[q])


\* the .ts files a playlist version lists
Listed(version) ==
    {FileName(version.segments[k].uri) : k \in 1..Len(version.segments)}

\* C33: every playlist version written to the object store lists only .ts
\* segments whose upload has been carried out by then (it succeeded or it
\* failed); no playlist is published ahead of the upload of a segment it
\* lists.
C33_PlaylistAfterSegments ==
    [][(r2Playlist' # r2Playlist) =>
          (Listed(Last(r2Playlist')) \subseteq (r2Ts' \cup tsFailed'))]_vars


\* the upload requests an upload queue holds, and the .ts files among them
Requests(q) == SelectSeq(q, LAMBDA item : item # StopSignal)
QueuedFiles(q) == UNION {q[k].files : k \in 1..Len(q)}
HasPlaylistItem(q) == \E k \in 1..Len(q) : q[k].type = "playlist"
AddSegmentSucceeds == processed_segments' # processed_segments
NewFiles == {<<sequence_number, k>> : k \in 0..(sequence_number' - sequence_number - 1)}

\* add_segment hands every new .ts batch and the rewritten playlist to the
\* queue, or uploads it itself when the queue takes no more
FallbackOnFull ==
    [][AddSegmentSucceeds =>
          /\ NewFiles \subseteq (r2Ts' \cup QueuedFiles(upload_queue'))
          /\ \/ Len(Requests(upload_queue')) > Len(Requests(upload_queue))
                   /\ HasPlaylistItem(upload_queue')
                   /\ Last(upload_queue').type = "playlist"
             \/ r2Playlist' = Append(r2Playlist,
                                      PlaylistContent("add_segment")')]_vars

\* the queue was full when add_segment came to it
QueueWasFull ==
    /\ coPc = "add"
    /\ queueExists
    /\ Len(upload_queue) = UPLOAD_QUEUE_MAXSIZE

\* C34: add_segment uploads an item synchronously when the upload queue is
\* full, and no upload request for a new .ts batch or a rewritten playlist
\* is discarded: a request leaves the queue only when the upload worker
\* takes it, one at a time, from the head.
C34_NoRequestDiscarded ==
    [][/\ AddSegmentSucceeds =>
              NewFiles \subseteq (r2Ts' \cup QueuedFiles(upload_queue'))
       /\ (Len(Requests(upload_queue')) < Len(Requests(upload_queue))) =>
              (upWorker = "idle" /\ upload_queue' = Tail(upload_queue))]_vars


WorkerEnded == upWorker \in {"stopped", "cancelled"}

\* C35: once None is on the upload queue the worker completes the items
\* queued ahead of it and then stops, and it processes nothing afterwards:
\* the worker ends only in a step that finds None at the head of the
\* queue, and an ended worker counts no further upload.
C35_PoisonPill ==
    [][/\ (upWorker = "idle" /\ upWorker' # "idle") =>
              (upload_queue # <<>> /\ Head(upload_queue) = StopSignal)
       /\ WorkerEnded => (upStats' = upStats /\ tsFailed' = tsFailed)]_vars


\* the callers whose tts_model.infer is in execution
Inferring == {c \in SynthCallers : synthPc[c] = "infer"}

Calls(f, calls) == Cardinality({k \in 1..Len(calls) : calls[k] = f})
AlignerReturned == unitPc = "done" /\ unitCall.fn = "DurationAligner"

\* C37: for a batch the Aligner runs the simplification retry at most once:
\* the Simplifier is called at most once, the too-fast sentences are
\* synthesised again at most once, the alignment runs once more at most
\* (and once more exactly when the re-synthesis went through), and every
\* sentence of the batch is returned, too fast or not.
C37_RetryAtMostOnce ==
    AlignerReturned =>
        /\ Calls("simplify_sentences", unitResult.calls) <= 1
        /\ Calls("generate_audio_stream", unitResult.calls) <= 1
        /\ Calls("align_batch", unitResult.calls) <= 2
        /\ (unitCall.refined.simplified /\ unitCall.refined.ok
              /\ unitResult.simplified)
             => Calls("align_batch", unitResult.calls) = 2
        /\ Len(unitResult.sentences) = Len(unitCall.sentences)

\* the retry went through and a sentence is still too fast in what the
\* Aligner returns
C37_Witness ==
    /\ AlignerReturned
    /\ Calls("generate_audio_stream", unitResult.calls) = 1
    /\ Calls("align_batch", unitResult.calls) = 2
    /\ \E k \in 1..Len(unitResult.sentences) :
          TooFast(unitResult.sentences[k])


\* a sentence of the result came to the time-stretch step with a speed
\* outside [0.5, 100]
StretchOutOfRange ==
    \E k \in 1..Len(unitResult.sentences) :
        LET s == unitResult.sentences[k] IN
        /\ s.generated_audio
        /\ s.speed.num # s.speed.den
        /\ ~(2 * s.speed.num >= s.speed.den /\ s.speed.num <= 100 * s.speed.den)

\* C38: when a sentence reaches the time-stretch step with a speed outside
\* [0.5, 100], the error is raised out of the Aligner (and the task then
\* ends in error).
C38_OutOfRangeRaises ==
    (AlignerReturned /\ StretchOutOfRange) => unitResult.raised


RunCancelled == pc = "cancelled"

\* C39: a run that is cancelled puts a terminator on Q1 and on Q2, lets the
\* upload queue drain, cancels the workers that still run and deletes the
\* scratch directory: once nothing moves any more after a cancellation,
\* both queues have been given a terminator, no worker is left at work,
\* the upload queue is empty and the scratch directory is gone.
C39_CancellationCleansUp ==
    (RunCancelled /\ ~ENABLED CancelNext) =>
        /\ QueuesBuilt =>
              \A q \in {"tts", "aligned"} : TerminatorsPut(puts[q]) = 1
        /\ ProducerEnded \/ ttsPc = "cancelled"
        /\ AlignerEnded \/ alPc = "cancelled"
        /\ ComposeEnded \/ coPc = "cancelled"
        /\ upWorker \in {"none", "stopped", "cancelled"}
        /\ upload_queue = <<>>
        /\ ~scratch


\* C40: after the pipeline of a task has ended, on success and on every
\* error path, the task's upload worker has terminated and its upload
\* queue and its manager entry (the lock is created and deleted together
\* with the manager entry) have been released.
C40_ReleasedAfterPipeline ==
    Returned =>
        /\ upWorker \in {"none", "stopped", "cancelled"}
        /\ ~queueExists
        /\ ~task_managers

====
